---- MODULE Spec2Model ----
(***************************************************************************)
(* opencode-quota: the pricing snapshot cache (lib/modelsdev-pricing.ts)   *)
(* and the classic quota toast formatter (lib/toast-format.ts).            *)
(*                                                                         *)
(* Spec     : the pricing cache as a state machine.  Accessor calls are    *)
(*            synchronous steps; a refresh is a task that advances one     *)
(*            await at a time, interleaved with accessor calls and the     *)
(*            clock.                                                       *)
(* SpecFmt  : the formatter, a pure function applied to inputs drawn from  *)
(*            bounded sets.                                                *)
(* SpecKey  : resolveFirmwareApiKey (lib/firmware-config.ts), one await at *)
(*            a time, on environments and files drawn from bounded sets.   *)
(* SpecConf : loadConfig (lib/config.ts), likewise.                        *)
(***************************************************************************)
EXTENDS Integers, Sequences, FiniteSets, TLC

VARIABLES
    SNAPSHOT,           \* module variable SNAPSHOT (NoSnap models null)
    REFRESH_IN_FLIGHT,  \* module variable REFRESH_IN_FLIGHT: promise id, 0 models null
    installed,          \* history: SNAPSHOT was assigned by a refresh (line 162)
    tasks,              \* running refresh bodies: promise id -> position and locals
    cacheFile,          \* content of <cache>/opencode-quota/modelsdev-pricing.json
    bundledFile,        \* content of ../data/modelsdev-pricing.min.json
    now,                \* the clock, in ticks of TickMs
    last,               \* the step just taken and what it observed
    fmt,                \* formatter: inputs and produced lines
    fw,                 \* resolveFirmwareApiKey: inputs, position and result
    conf                \* loadConfig: inputs, position and result

vars == <<SNAPSHOT, REFRESH_IN_FLIGHT, installed, tasks, cacheFile, bundledFile, now, last, fmt, fw, conf>>

(***************************************************************************)
(* Bounds                                                                  *)
(***************************************************************************)
TickMs   == 86400000   \* one clock tick: 24 hours in milliseconds
InitTick == 2          \* the process starts at tick 2
MaxTick  == 4          \* the clock stops advancing here

(***************************************************************************)
(* JSON values, tagged with their JavaScript type                          *)
(***************************************************************************)
Undef   == [t |-> "undef"]
JNull   == [t |-> "null"]
Str(s)  == [t |-> "str", s |-> s]
Num(n)  == [t |-> "num", n |-> n]
Arr(a)  == [t |-> "arr", a |-> a]
Obj(f)  == [t |-> "obj", f |-> f]
Fn(nm)  == [t |-> "fn", name |-> nm]
NoKeys  == [k \in {} |-> Undef]

\* Members every object inherits from Object.prototype (a representative part).
ObjectPrototypeKeys == {"constructor", "toString"}

\* value[key] in JavaScript, for a value that is neither null nor undefined:
\* own properties first, then the prototype chain.
GetProp(value, key) ==
    IF value.t = "obj" /\ key \in DOMAIN value.f THEN value.f[key]
    ELSE IF value.t = "fn" /\ key = "name" THEN Str(value.name)
    ELSE IF key = "constructor" THEN Fn("Object")
    ELSE IF key \in ObjectPrototypeKeys THEN Fn(key)
    ELSE Undef

\* JavaScript truthiness of a value
Truthy(value) ==
    CASE value.t = "undef" -> FALSE
      [] value.t = "null"  -> FALSE
      [] value.t = "num"   -> value.n # 0
      [] value.t = "str"   -> value.s # ""
      [] OTHER             -> TRUE

\* Object.keys(value): own enumerable keys
ObjectKeys(value) == IF value.t = "obj" THEN DOMAIN value.f ELSE {}

(***************************************************************************)
(* Constants of modelsdev-pricing.ts                                       *)
(***************************************************************************)
MODELSDEV_API_URL      == "https://models.dev/api.json"
MODELSDEV_CACHE_TTL_MS == 24 * 60 * 60 * 1000
PROVIDER_ALLOWLIST     == {"anthropic", "google", "moonshotai", "openai", "zai"}
UNITS                  == "USD per 1M tokens"
CustomUrl              == "https://example.test/api.json"

isRecord(value) == value.t = "obj"

isSnapshot_noSourceCheck(value) ==
    /\ isRecord(value)
    /\ isRecord(GetProp(value, "_meta"))
    /\ isRecord(GetProp(value, "providers"))
    /\ GetProp(GetProp(value, "_meta"), "generatedAt").t = "num"
    /\ GetProp(GetProp(value, "_meta"), "providers").t = "arr"
    /\ GetProp(GetProp(value, "_meta"), "units").t = "str"

isSnapshot(value) ==
    /\ isRecord(value)
    /\ isRecord(GetProp(value, "_meta"))
    /\ isRecord(GetProp(value, "providers"))
    /\ GetProp(GetProp(value, "_meta"), "source").t = "str"
    /\ GetProp(GetProp(value, "_meta"), "generatedAt").t = "num"
    /\ GetProp(GetProp(value, "_meta"), "providers").t = "arr"
    /\ GetProp(GetProp(value, "_meta"), "units").t = "str"

(***************************************************************************)
(* Snapshot objects.  oid is the object's identity: two references are the *)
(* same object iff their oid is equal.                                     *)
(***************************************************************************)
NoSnap == [oid |-> 0, doc |-> Undef]

MkMeta(source, generatedAt, providers) ==
    Obj("source" :> source @@ "generatedAt" :> generatedAt
        @@ "providers" :> providers @@ "units" :> Str(UNITS))

MkDoc(meta, providers) == Obj("_meta" :> meta @@ "providers" :> providers)

\* the literal installed when neither file yields a snapshot
Placeholder == MkDoc(MkMeta(Str("(unknown)"), Num(0), Arr(<<>>)), Obj(NoKeys))

MetaOf(snap)        == GetProp(snap.doc, "_meta")
ProvidersOf(snap)   == GetProp(snap.doc, "providers")
GeneratedAt(snap)   == GetProp(MetaOf(snap), "generatedAt")
SourceOf(snap)      == GetProp(MetaOf(snap), "source")

DateNow == now * TickMs

(***************************************************************************)
(* Files.  A file is absent, holds text JSON.parse rejects, or holds the   *)
(* JSON value its text parses to.                                          *)
(***************************************************************************)
FileAbsent   == [st |-> "absent", v |-> Undef]
FileGarbage  == [st |-> "garbage", v |-> Undef]
FileJson(v)  == [st |-> "json", v |-> v]

OneModel == Obj("m1" :> Obj("input" :> Num(3) @@ "output" :> Num(15)))

DocFresh  == MkDoc(MkMeta(Str(MODELSDEV_API_URL), Num(InitTick * TickMs), Arr(<<"anthropic">>)),
                   Obj("anthropic" :> OneModel))
DocOld    == MkDoc(MkMeta(Str(MODELSDEV_API_URL), Num(0), Arr(<<"anthropic">>)),
                   Obj("anthropic" :> OneModel))
DocCustom == MkDoc(MkMeta(Str(CustomUrl), Num(InitTick * TickMs), Arr(<<"openai">>)),
                   Obj("openai" :> OneModel @@ "local" :> Num(7)))
DocNumSource == MkDoc(MkMeta(Num(1), Num(InitTick * TickMs), Arr(<<"anthropic">>)),
                      Obj("anthropic" :> OneModel))
DocProvidersArray == Obj("_meta" :> MkMeta(Str(MODELSDEV_API_URL), Num(InitTick * TickMs), Arr(<<>>))
                         @@ "providers" :> Arr(<<>>))
DocBundled == MkDoc(MkMeta(Str("https://models.dev/api.json"), Num(InitTick * TickMs), Arr(<<"google">>)),
                    Obj("google" :> OneModel))
DocBundledOld == MkDoc(MkMeta(Str("bundled"), Num(0), Arr(<<"google">>)),
                       Obj("google" :> OneModel))

CacheFiles == {FileAbsent, FileGarbage, FileJson(DocFresh), FileJson(DocOld), FileJson(DocCustom),
               FileJson(DocNumSource), FileJson(DocProvidersArray)}

BundledFiles == {FileAbsent, FileJson(DocBundled), FileJson(DocBundledOld)}


(***************************************************************************)
(* Pricing configuration                                                   *)
(***************************************************************************)
MkConfig(pricingSource, pricingUrl) ==
    [present |-> TRUE, pricingSource |-> pricingSource, pricingUrl |-> pricingUrl]

NoConfig   == [present |-> FALSE, pricingSource |-> Undef, pricingUrl |-> Undef]
CfgEmpty   == MkConfig(Undef, Undef)
CfgBundled == MkConfig(Str("bundled"), Undef)
CfgCustom  == MkConfig(Str("network"), Str(" https://EXAMPLE.test/api.json "))

Configs == {NoConfig, CfgEmpty, CfgBundled, CfgCustom}

\* String.prototype.trim on the strings the configurations hold
trim(s) == IF s = " https://EXAMPLE.test/api.json " THEN "https://EXAMPLE.test/api.json" ELSE s

\* new URL(raw).toString(): throws on a string that is no URL, lower-cases the host
URLtoString(raw) ==
    CASE raw = "https://EXAMPLE.test/api.json" -> [ok |-> TRUE, href |-> CustomUrl]
      [] raw = CustomUrl                       -> [ok |-> TRUE, href |-> CustomUrl]
      [] raw = MODELSDEV_API_URL               -> [ok |-> TRUE, href |-> MODELSDEV_API_URL]
      [] OTHER                                 -> [ok |-> FALSE, href |-> ""]

resolvePricingConfig(config) ==
    LET source == IF config.pricingSource = Str("bundled") \/ config.pricingSource = Str("network")
                  THEN config.pricingSource.s ELSE "network"
        rawUrl == IF config.pricingUrl.t = "str" THEN trim(config.pricingUrl.s) ELSE ""
    IN  IF rawUrl # ""
        THEN IF URLtoString(rawUrl).ok
             THEN [source |-> source, url |-> URLtoString(rawUrl).href]
             ELSE [source |-> source, url |-> MODELSDEV_API_URL]
        ELSE [source |-> source, url |-> MODELSDEV_API_URL]

(***************************************************************************)
(* Reading and building snapshots                                          *)
(***************************************************************************)
\* readFileSync + JSON.parse + isSnapshot; any throw yields null.  The parsed
\* value is a new object, identified by oid.
readSnapshotFromFile(file, oid) ==
    IF file.st # "json" THEN NoSnap
    ELSE IF ~isSnapshot(file.v) THEN NoSnap
    ELSE [oid |-> oid, doc |-> file.v]

\* The order in which Object.entries / Object.keys enumerate the keys of the
\* objects of the model (insertion order of the document).
KeyOrder == <<"evil", "zai", "anthropic", "local", "google", "moonshotai", "openai">>

\* typeof cost[key] === "number" ? cost[key] : undefined
NumberOrUndefined(cost, key) ==
    IF GetProp(cost, key).t = "num" THEN GetProp(cost, key) ELSE Undef

\* the inner loop of buildSnapshotFromApi: the modelCosts of one provider
modelCostsOf(models) ==
    LET kept == {modelId \in ObjectKeys(models) :
                    /\ isRecord(models.f[modelId])
                    /\ isRecord(GetProp(models.f[modelId], "cost"))
                    /\ \/ GetProp(GetProp(models.f[modelId], "cost"), "input").t = "num"
                       \/ GetProp(GetProp(models.f[modelId], "cost"), "output").t = "num"}
    IN  Obj([modelId \in kept |->
               Obj("input" :> NumberOrUndefined(GetProp(models.f[modelId], "cost"), "input")
                   @@ "output" :> NumberOrUndefined(GetProp(models.f[modelId], "cost"), "output"))])

buildProviders_noAllowlist(payload) ==
    LET kept == {providerId \in ObjectKeys(payload) :
                    /\ isRecord(payload.f[providerId])
                    /\ isRecord(GetProp(payload.f[providerId], "models"))
                    /\ ObjectKeys(modelCostsOf(GetProp(payload.f[providerId], "models"))) # {}}
    IN  Obj([providerId \in kept |-> modelCostsOf(GetProp(payload.f[providerId], "models"))])

\* the outer loop of buildSnapshotFromApi: the providers map
buildProviders(payload) ==
    LET kept == {providerId \in ObjectKeys(payload) :
                    /\ providerId \in PROVIDER_ALLOWLIST
                    /\ isRecord(payload.f[providerId])
                    /\ isRecord(GetProp(payload.f[providerId], "models"))
                    /\ ObjectKeys(modelCostsOf(GetProp(payload.f[providerId], "models"))) # {}}
    IN  Obj([providerId \in kept |-> modelCostsOf(GetProp(payload.f[providerId], "models"))])

\* Object.keys(providers) as an array
providerListOf(providers) == SelectSeq(KeyOrder, LAMBDA k : k \in ObjectKeys(providers))

buildSnapshotFromApi(payload, sourceUrl, oid) ==
    IF ~isRecord(payload) THEN NoSnap
    ELSE IF Len(providerListOf(buildProviders(payload))) = 0 THEN NoSnap
    ELSE [oid |-> oid,
          doc |-> MkDoc(MkMeta(Str(sourceUrl), Num(DateNow),
                               Arr(providerListOf(buildProviders(payload)))),
                        buildProviders(payload))]

\* JSON.stringify followed by JSON.parse: properties holding undefined or a
\* function are dropped.
RECURSIVE JSONRoundTrip(_)
JSONRoundTrip(value) ==
    IF value.t = "obj"
    THEN Obj([k \in {key \in DOMAIN value.f : value.f[key].t \notin {"undef", "fn"}} |->
                JSONRoundTrip(value.f[k])])
    ELSE value

shouldRefresh_atTtl(snapshot, sourceUrl) ==
    IF snapshot = NoSnap THEN TRUE
    ELSE IF GeneratedAt(snapshot).t # "num" THEN TRUE
    ELSE IF SourceOf(snapshot) # Str(sourceUrl) THEN TRUE
    ELSE DateNow - GeneratedAt(snapshot).n >= MODELSDEV_CACHE_TTL_MS

shouldRefresh(snapshot, sourceUrl) ==
    IF snapshot = NoSnap THEN TRUE
    ELSE IF GeneratedAt(snapshot).t # "num" THEN TRUE
    ELSE IF SourceOf(snapshot) # Str(sourceUrl) THEN TRUE
    ELSE DateNow - GeneratedAt(snapshot).n > MODELSDEV_CACHE_TTL_MS

(***************************************************************************)
(* Payloads the remote document may parse to                               *)
(***************************************************************************)
PayloadGood == Obj("anthropic" :> Obj("models" :> Obj(
                        "m1" :> Obj("cost" :> Obj("input" :> Num(3) @@ "output" :> Num(15)))
                     @@ "m2" :> Obj("cost" :> Obj("input" :> Num(1)))
                     @@ "m3" :> Obj("cost" :> Obj("input" :> Str("1")))
                     @@ "m4" :> Num(4)))
                @@ "evil" :> Obj("models" :> Obj(
                        "x" :> Obj("cost" :> Obj("input" :> Num(1) @@ "output" :> Num(1)))))
                @@ "google" :> Num(5)
                @@ "openai" :> Obj("models" :> Obj("g" :> Obj("cost" :> Obj(NoKeys))))
                @@ "moonshotai" :> Obj("models" :> Obj(NoKeys))
                @@ "zai" :> Obj("models" :> Obj(
                        "z" :> Obj("cost" :> Obj("output" :> Num(2))))))
PayloadNoProviders == Obj("evil" :> Obj("models" :> Obj(
                        "x" :> Obj("cost" :> Obj("input" :> Num(1)))))
                @@ "openai" :> Obj("models" :> Obj("g" :> Obj("cost" :> Obj("input" :> JNull)))))
PayloadArray == Arr(<<>>)

Payloads == {PayloadGood, PayloadNoProviders, PayloadArray}


(***************************************************************************)
(* Synchronous code runs on a record m of the module state plus what the   *)
(* call did: ret (the snapshot ensureLoaded* returned), reads (files read),*)
(* fetches (network requests issued), requested (refresh calls made) and   *)
(* promise (the operation the last refresh call resolves with).  oid is    *)
(* the identity of the object the call allocates.                          *)
(***************************************************************************)
Machine ==
    [SNAPSHOT |-> SNAPSHOT, REFRESH_IN_FLIGHT |-> REFRESH_IN_FLIGHT, tasks |-> tasks,
     ret |-> NoSnap, reads |-> 0, fetches |-> 0, requested |-> 0, promise |-> 0]

\* object identities still referenced somewhere
LiveOids ==
    {SNAPSHOT.oid, last.ret.oid} \cup {tasks[i].snap.oid : i \in DOMAIN tasks}
                            \cup {tasks[i].snap0.oid : i \in DOMAIN tasks}

\* the identity of a newly allocated object
NewOid == CHOOSE n \in 1..(Cardinality(LiveOids) + 1) :
             n \notin LiveOids /\ \A k \in 1..(n - 1) : k \in LiveOids

NewPromise(ts) == CHOOSE n \in 1..(Cardinality(DOMAIN ts) + 1) :
                     n \notin DOMAIN ts /\ \A k \in 1..(n - 1) : k \in DOMAIN ts

\* The async body up to its first await: the AbortController and the timer
\* exist and fetch(sourceUrl) has been issued.  snap0 and file0 remember the
\* snapshot and the cache file at that moment.
NewTask(m, sourceUrl) ==
    [pc |-> "fetch", url |-> sourceUrl, snap |-> NoSnap, snap0 |-> m.SNAPSHOT, file0 |-> cacheFile]

refreshSnapshotFromModelsDev_noGuard(m, sourceUrl) ==
    [m EXCEPT !.tasks = @ @@ (NewPromise(m.tasks) :> NewTask(m, sourceUrl)),
              !.REFRESH_IN_FLIGHT = NewPromise(m.tasks),
              !.requested = @ + 1,
              !.promise = NewPromise(m.tasks),
              !.fetches = @ + 1]

refreshSnapshotFromModelsDev(m, sourceUrl) ==
    IF m.REFRESH_IN_FLIGHT # 0
    THEN [m EXCEPT !.requested = @ + 1, !.promise = m.REFRESH_IN_FLIGHT]
    ELSE [m EXCEPT !.tasks = @ @@ (NewPromise(m.tasks) :> NewTask(m, sourceUrl)),
                   !.REFRESH_IN_FLIGHT = NewPromise(m.tasks),
                   !.requested = @ + 1,
                   !.promise = NewPromise(m.tasks),
                   !.fetches = @ + 1]

\* bundled ?? placeholder literal
bundledOrPlaceholder(oid) ==
    IF readSnapshotFromFile(bundledFile, oid) # NoSnap
    THEN readSnapshotFromFile(bundledFile, oid)
    ELSE [oid |-> oid, doc |-> Placeholder]

\* if (shouldRefresh(snapshot, url)) void refreshSnapshotFromModelsDev(url)
refreshIfNeeded(m, snapshot, url) ==
    IF shouldRefresh(snapshot, url) THEN refreshSnapshotFromModelsDev(m, url) ELSE m

ensureLoaded_noMemo(m, oid) ==
    IF readSnapshotFromFile(cacheFile, oid) # NoSnap
    THEN [refreshIfNeeded([m EXCEPT !.SNAPSHOT = readSnapshotFromFile(cacheFile, oid)],
                          readSnapshotFromFile(cacheFile, oid),
                          resolvePricingConfig(NoConfig).url)
          EXCEPT !.ret = readSnapshotFromFile(cacheFile, oid), !.reads = @ + 1]
    ELSE [refreshIfNeeded([m EXCEPT !.SNAPSHOT = bundledOrPlaceholder(oid)],
                          bundledOrPlaceholder(oid),
                          resolvePricingConfig(NoConfig).url)
          EXCEPT !.ret = bundledOrPlaceholder(oid), !.reads = @ + 2]

ensureLoaded(m, oid) ==
    IF m.SNAPSHOT # NoSnap THEN [m EXCEPT !.ret = m.SNAPSHOT]
    ELSE IF resolvePricingConfig(NoConfig).source = "bundled"
    THEN [m EXCEPT !.SNAPSHOT = bundledOrPlaceholder(oid),
                   !.ret = bundledOrPlaceholder(oid),
                   !.reads = @ + 1]
    ELSE IF readSnapshotFromFile(cacheFile, oid) # NoSnap
    THEN [refreshIfNeeded([m EXCEPT !.SNAPSHOT = readSnapshotFromFile(cacheFile, oid)],
                          readSnapshotFromFile(cacheFile, oid),
                          resolvePricingConfig(NoConfig).url)
          EXCEPT !.ret = readSnapshotFromFile(cacheFile, oid), !.reads = @ + 1]
    ELSE [refreshIfNeeded([m EXCEPT !.SNAPSHOT = bundledOrPlaceholder(oid)],
                          bundledOrPlaceholder(oid),
                          resolvePricingConfig(NoConfig).url)
          EXCEPT !.ret = bundledOrPlaceholder(oid), !.reads = @ + 2]

ensureLoadedWithConfig_ignoreBundled(m, config, oid) ==
    IF ~config.present THEN ensureLoaded(m, oid)
    ELSE IF readSnapshotFromFile(cacheFile, oid) # NoSnap
    THEN [refreshIfNeeded(m, readSnapshotFromFile(cacheFile, oid), resolvePricingConfig(config).url)
          EXCEPT !.ret = readSnapshotFromFile(cacheFile, oid), !.reads = @ + 1]
    ELSE [refreshIfNeeded(m, bundledOrPlaceholder(oid), resolvePricingConfig(config).url)
          EXCEPT !.ret = bundledOrPlaceholder(oid), !.reads = @ + 2]

ensureLoadedWithConfig(m, config, oid) ==
    IF ~config.present THEN ensureLoaded(m, oid)
    ELSE IF resolvePricingConfig(config).source = "bundled"
    THEN [m EXCEPT !.ret = bundledOrPlaceholder(oid), !.reads = @ + 1]
    ELSE IF readSnapshotFromFile(cacheFile, oid) # NoSnap
    THEN [refreshIfNeeded(m, readSnapshotFromFile(cacheFile, oid), resolvePricingConfig(config).url)
          EXCEPT !.ret = readSnapshotFromFile(cacheFile, oid), !.reads = @ + 1]
    ELSE [refreshIfNeeded(m, bundledOrPlaceholder(oid), resolvePricingConfig(config).url)
          EXCEPT !.ret = bundledOrPlaceholder(oid), !.reads = @ + 2]

(***************************************************************************)
(* The exported accessors: the value each computes from the snapshot       *)
(* ensureLoadedWithConfig returned.                                        *)
(***************************************************************************)
Bool(b) == [t |-> "bool", b |-> b]

getPricingSnapshotMeta(snap) == MetaOf(snap)

hasProvider(snap, providerId) == Bool(Truthy(GetProp(ProvidersOf(snap), providerId)))

\* Object.keys(providers[providerId] || {}).length
getProviderModelCount(snap, providerId) ==
    IF Truthy(GetProp(ProvidersOf(snap), providerId))
    THEN Num(Cardinality(ObjectKeys(GetProp(ProvidersOf(snap), providerId))))
    ELSE Num(0)

listProviders(snap) == Arr(providerListOf(ProvidersOf(snap)))

lookupCost_noModelCheck(snap, providerId, modelId) ==
    IF ~Truthy(GetProp(ProvidersOf(snap), providerId)) THEN JNull
    ELSE GetProp(GetProp(ProvidersOf(snap), providerId), modelId)

lookupCost(snap, providerId, modelId) ==
    IF ~Truthy(GetProp(ProvidersOf(snap), providerId)) THEN JNull
    ELSE IF ~Truthy(GetProp(GetProp(ProvidersOf(snap), providerId), modelId)) THEN JNull
    ELSE GetProp(GetProp(ProvidersOf(snap), providerId), modelId)

\* the arguments the environment passes
ProviderIds == {"anthropic", "google", "local", "constructor"}
ModelIds    == {"m1", "unknown-model", "name"}

(***************************************************************************)
(* The record of the step just taken                                       *)
(***************************************************************************)
\* op: the step; for an accessor call its configuration, the snapshot it got
\* from ensureLoadedWithConfig and what the call did; for the end of a refresh
\* body whether its promise rejected
LastBase(op) ==
    [op |-> op, config |-> NoConfig, ret |-> NoSnap,
     reads |-> 0, fetches |-> 0, requested |-> 0, promise |-> 0, rejected |-> FALSE]

FmtOff  == [pc |-> "off"]
FwOff   == [pc |-> "off"]
ConfOff == [pc |-> "off"]

\* now - generatedAt > 24h, the age test of the staleness policy
AgeStale(snap) == DateNow - GeneratedAt(snap).n > MODELSDEV_CACHE_TTL_MS

Init ==
    /\ SNAPSHOT = NoSnap
    /\ installed = FALSE
    /\ REFRESH_IN_FLIGHT = 0
    /\ tasks = <<>>
    /\ cacheFile \in CacheFiles
    /\ bundledFile \in BundledFiles
    /\ now = InitTick
    /\ last = LastBase("init")
    /\ fmt = FmtOff
    /\ fw = FwOff
    /\ conf = ConfOff

(***************************************************************************)
(* An exported accessor (getPricingSnapshotMeta, hasProvider,              *)
(* getProviderModelCount, listProviders, lookupCost) is called with a      *)
(* configuration or none.  Each runs ensureLoadedWithConfig(config) and    *)
(* returns a projection of the snapshot it gets, last.ret.                 *)
(***************************************************************************)
Access(config) ==
    \E m \in {ensureLoadedWithConfig(Machine, config, NewOid)} :
        /\ SNAPSHOT' = m.SNAPSHOT
        /\ UNCHANGED installed
        /\ REFRESH_IN_FLIGHT' = m.REFRESH_IN_FLIGHT
        /\ tasks' = m.tasks
        /\ last' = [LastBase("access") EXCEPT
                       !.config = config, !.ret = m.ret, !.reads = m.reads,
                       !.fetches = m.fetches, !.requested = m.requested,
                       !.promise = m.promise]
        /\ UNCHANGED <<cacheFile, bundledFile, now, fmt, fw, conf>>

(***************************************************************************)
(* The refresh body, one await at a time                                   *)
(***************************************************************************)
\* catch { /* ignore refresh failures */ }: whether the promise rejects
catchIgnore_rethrow(thrown) == thrown

catchIgnore(thrown) == FALSE

\* the body ends without the finally block: the marker is left as it is
finallyBlock_noClear(id, op, thrown) ==
    /\ tasks' = [i \in DOMAIN tasks \ {id} |-> tasks[i]]
    /\ UNCHANGED REFRESH_IN_FLIGHT
    /\ last' = [LastBase(op) EXCEPT !.rejected = catchIgnore(thrown)]

\* finally { clearTimeout(timeoutId); REFRESH_IN_FLIGHT = null; } and the
\* body is over
finallyBlock(id, op, thrown) ==
    /\ tasks' = [i \in DOMAIN tasks \ {id} |-> tasks[i]]
    /\ REFRESH_IN_FLIGHT' = 0
    /\ last' = [LastBase(op) EXCEPT !.rejected = catchIgnore(thrown)]

\* await fetch(...) rejects: network error, or the 8 s timer aborted it
FetchReject(id, reason) ==
    /\ tasks[id].pc = "fetch"
    /\ finallyBlock(id, reason, TRUE)
    /\ UNCHANGED <<SNAPSHOT, installed, cacheFile, bundledFile, now, fmt, fw, conf>>

\* await fetch(...) resolves with a response; if (!response.ok) return
FetchResponse(id, ok) ==
    /\ tasks[id].pc = "fetch"
    /\ IF ok
       THEN /\ tasks' = [tasks EXCEPT ![id].pc = "json"]
            /\ last' = LastBase("response")
            /\ UNCHANGED REFRESH_IN_FLIGHT
       ELSE finallyBlock(id, "notOk", FALSE)
    /\ UNCHANGED <<SNAPSHOT, installed, cacheFile, bundledFile, now, fmt, fw, conf>>

\* await response.json() rejects: unparseable body, or aborted by the timer
JsonReject(id, reason) ==
    /\ tasks[id].pc = "json"
    /\ finallyBlock(id, reason, TRUE)
    /\ UNCHANGED <<SNAPSHOT, installed, cacheFile, bundledFile, now, fmt, fw, conf>>

\* await response.json() resolves; buildSnapshotFromApi; if (!snapshot) return;
\* mkdir is issued
JsonResolve(id, payload) ==
    /\ tasks[id].pc = "json"
    /\ \E snapshot \in {buildSnapshotFromApi(payload, tasks[id].url, NewOid)} :
           IF snapshot = NoSnap
           THEN finallyBlock(id, "empty", FALSE)
           ELSE /\ tasks' = [tasks EXCEPT ![id].pc = "mkdir", ![id].snap = snapshot]
                /\ last' = LastBase("built")
                /\ UNCHANGED REFRESH_IN_FLIGHT
    /\ UNCHANGED <<SNAPSHOT, installed, cacheFile, bundledFile, now, fmt, fw, conf>>

\* await mkdir(...) rejects
MkdirReject(id) ==
    /\ tasks[id].pc = "mkdir"
    /\ finallyBlock(id, "mkdirFailed", TRUE)
    /\ UNCHANGED <<SNAPSHOT, installed, cacheFile, bundledFile, now, fmt, fw, conf>>

\* await mkdir(...) resolves; writeFile is issued
MkdirResolve(id) ==
    /\ tasks[id].pc = "mkdir"
    /\ tasks' = [tasks EXCEPT ![id].pc = "write"]
    /\ last' = LastBase("mkdir")
    /\ UNCHANGED <<SNAPSHOT, installed, REFRESH_IN_FLIGHT, cacheFile, bundledFile, now, fmt, fw, conf>>

\* writeFile has put the whole text JSON.stringify(snapshot) in the file; its
\* promise is not settled yet
WriteFileDone(id) ==
    /\ tasks[id].pc = "write"
    /\ tasks' = [tasks EXCEPT ![id].pc = "written"]
    /\ cacheFile' = FileJson(JSONRoundTrip(tasks[id].snap.doc))
    /\ last' = LastBase("flushed")
    /\ UNCHANGED <<SNAPSHOT, installed, REFRESH_IN_FLIGHT, bundledFile, now, fmt, fw, conf>>

\* the assignment of line 162 placed before the await of line 161: the
\* snapshot is installed although writeFile rejects
WriteReject_installFirst(id, truncated) ==
    /\ tasks[id].pc = "write"
    /\ cacheFile' = IF truncated THEN FileGarbage ELSE cacheFile
    /\ SNAPSHOT' = tasks[id].snap
    /\ installed' = TRUE
    /\ finallyBlock(id, IF truncated THEN "writeFailedTruncated" ELSE "writeFailed", TRUE)
    /\ UNCHANGED <<bundledFile, now, fmt, fw, conf>>

\* await writeFile(...) rejects.  writeFile opens with flag "w" and is not
\* atomic: a failure at the open leaves the file as it was, a failure after
\* it leaves a truncated text.
WriteReject(id, truncated) ==
    /\ tasks[id].pc = "write"
    /\ cacheFile' = IF truncated THEN FileGarbage ELSE cacheFile
    /\ finallyBlock(id, IF truncated THEN "writeFailedTruncated" ELSE "writeFailed", TRUE)
    /\ UNCHANGED <<SNAPSHOT, installed, bundledFile, now, fmt, fw, conf>>

\* await writeFile(...) resolves; SNAPSHOT = snapshot
WriteResolve(id) ==
    /\ tasks[id].pc = "written"
    /\ SNAPSHOT' = tasks[id].snap
    /\ installed' = TRUE
    /\ finallyBlock(id, "install", FALSE)
    /\ UNCHANGED <<cacheFile, bundledFile, now, fmt, fw, conf>>

\* Time passes.  A pending fetch or body read does not outlive the 8 s
\* timer, so the 24 h tick waits for it.
Tick ==
    /\ now < MaxTick
    /\ \A i \in DOMAIN tasks : tasks[i].pc \notin {"fetch", "json"}
    /\ now' = now + 1
    /\ last' = LastBase("tick")
    /\ UNCHANGED <<SNAPSHOT, installed, REFRESH_IN_FLIGHT, tasks, cacheFile, bundledFile, fmt, fw, conf>>

Next ==
    \/ \E config \in Configs : Access(config)
    \/ \E id \in DOMAIN tasks, reason \in {"network", "timeout"} : FetchReject(id, reason)
    \/ \E id \in DOMAIN tasks, ok \in BOOLEAN : FetchResponse(id, ok)
    \/ \E id \in DOMAIN tasks, reason \in {"unparseable", "timeoutBody"} : JsonReject(id, reason)
    \/ \E id \in DOMAIN tasks, payload \in Payloads : JsonResolve(id, payload)
    \/ \E id \in DOMAIN tasks : MkdirReject(id)
    \/ \E id \in DOMAIN tasks : MkdirResolve(id)
    \/ \E id \in DOMAIN tasks : WriteFileDone(id)
    \/ \E id \in DOMAIN tasks, truncated \in BOOLEAN : WriteReject(id, truncated)
    \/ \E id \in DOMAIN tasks : WriteResolve(id)
    \/ Tick

Spec == Init /\ [][Next]_vars

\* A step of a running refresh body.  The timer of 8 s aborts the request
\* and the reading of the body, and the file system answers mkdir and
\* writeFile: a body that can take a step takes one.
RefreshStep ==
    \E id \in DOMAIN tasks :
        \/ \E reason \in {"network", "timeout"} : FetchReject(id, reason)
        \/ \E ok \in BOOLEAN : FetchResponse(id, ok)
        \/ \E reason \in {"unparseable", "timeoutBody"} : JsonReject(id, reason)
        \/ \E payload \in Payloads : JsonResolve(id, payload)
        \/ MkdirReject(id)
        \/ MkdirResolve(id)
        \/ WriteFileDone(id)
        \/ \E truncated \in BOOLEAN : WriteReject(id, truncated)
        \/ WriteResolve(id)

SpecLive == Spec /\ WF_vars(RefreshStep)

TypeOK ==
    /\ REFRESH_IN_FLIGHT \in Nat
    /\ now \in InitTick..MaxTick
    /\ cacheFile.st \in {"absent", "garbage", "json"}


(***************************************************************************)
(* Properties of the pricing cache                                         *)
(***************************************************************************)
NetworkMode(config) == resolvePricingConfig(config).source = "network"
BundledMode(config) == resolvePricingConfig(config).source = "bundled"

\* C1: single-flight refresh.  In every state at most one refresh body is
\* running, and an accessor step taken while one is in flight starts no
\* body and issues no fetch; if it asks for a refresh, whatever its URL, it
\* gets the operation already in flight.
C1_SingleFlight ==
    /\ [](Cardinality(DOMAIN tasks) <= 1)
    /\ [][(REFRESH_IN_FLIGHT # 0 /\ last'.op = "access") =>
            /\ tasks' = tasks
            /\ REFRESH_IN_FLIGHT' = REFRESH_IN_FLIGHT
            /\ last'.fetches = 0
            /\ (last'.requested > 0 => last'.promise = REFRESH_IN_FLIGHT)]_vars

\* a call with the custom URL asked for a refresh while the refresh of the
\* default URL was in flight, and was handed that operation
C1_Witness ==
    /\ last.op = "access"
    /\ last.config = CfgCustom
    /\ last.requested = 1
    /\ last.fetches = 0
    /\ REFRESH_IN_FLIGHT # 0
    /\ last.promise = REFRESH_IN_FLIGHT
    /\ tasks[REFRESH_IN_FLIGHT].url = MODELSDEV_API_URL

\* the ways a refresh fails before it writes anything: network error, timeout
\* abort of the request or of the body read, non-2xx response, unparseable
\* body, normalized result without providers
FailOps == {"network", "timeout", "notOk", "unparseable", "timeoutBody", "empty"}

\* C2: a step in which a refresh body ends by one of these failures leaves
\* SNAPSHOT and the cache file as they are, the cache file is what it was
\* when the refresh started, SNAPSHOT is the snapshot of that moment if there
\* was one, and the promise of the refresh does not reject.
C2_FailureLeavesState ==
    [][\A id \in DOMAIN tasks :
          (id \notin DOMAIN tasks' /\ last'.op \in FailOps) =>
              /\ SNAPSHOT' = SNAPSHOT
              /\ cacheFile' = cacheFile
              /\ cacheFile' = tasks[id].file0
              /\ (tasks[id].snap0 # NoSnap => SNAPSHOT' = tasks[id].snap0)
              /\ ~last'.rejected]_vars

\* a refresh ended with a result without providers while a snapshot was
\* loaded and the cache file held a document
C2_Witness ==
    /\ last.op = "empty"
    /\ SNAPSHOT # NoSnap
    /\ cacheFile.st = "json"
    /\ REFRESH_IN_FLIGHT = 0

\* C3: every accessor call in network mode made while the snapshot it
\* returns is older than 24h and no refresh is in flight starts exactly one
\* refresh, whatever calls and refreshes came before.
C3_StaleAccessRefreshes ==
    [][(/\ last'.op = "access"
        /\ NetworkMode(last'.config)
        /\ REFRESH_IN_FLIGHT = 0
        /\ AgeStale(last'.ret)) =>
            /\ last'.fetches = 1
            /\ Cardinality(DOMAIN tasks') = 1]_vars

\* the staleness policy as the specification states it
StalePolicy(snap) ==
    \/ snap = NoSnap
    \/ GeneratedAt(snap).t # "num"
    \/ DateNow - GeneratedAt(snap).n > 24 * 60 * 60 * 1000

\* C4 as stated: an accessor call starts a refresh only when the snapshot it
\* found is absent, has a non-numeric generatedAt or is older than 24h.
C4_RefreshOnlyWhenStale ==
    (last.op = "access" /\ last.fetches > 0) => StalePolicy(last.ret)

\* C4 amended: ... or its _meta.source differs from the URL the call resolved.
C4_RefreshOnlyWhenStaleOrOtherSource ==
    (last.op = "access" /\ last.fetches > 0) =>
        \/ StalePolicy(last.ret)
        \/ SourceOf(last.ret) # Str(resolvePricingConfig(last.config).url)

\* a call found a snapshot at most 24h old and started a refresh because the
\* snapshot came from another URL
C4_Witness ==
    /\ last.op = "access"
    /\ last.fetches = 1
    /\ ~StalePolicy(last.ret)
    /\ SourceOf(last.ret) # Str(resolvePricingConfig(last.config).url)

\* C5 as stated: of two consecutive accessor calls within the TTL window the
\* second returns the object the first returned and reads no file, with or
\* without a configuration argument.
C5_SecondAccessSameObject ==
    [][(/\ last.op = "access" /\ last'.op = "access"
        /\ ~AgeStale(last.ret) /\ ~AgeStale(last'.ret)) =>
            /\ last'.ret.oid = last.ret.oid
            /\ last'.reads = 0]_vars

\* C5 amended: ... when neither call passes a configuration argument.
C5_SecondAccessSameObjectNoConfig ==
    [][(/\ last.op = "access" /\ last'.op = "access"
        /\ ~last.config.present /\ ~last'.config.present
        /\ ~AgeStale(last.ret) /\ ~AgeStale(last'.ret)) =>
            /\ last'.ret.oid = last.ret.oid
            /\ last'.ret = SNAPSHOT'
            /\ last'.reads = 0]_vars

\* a call without configuration found the snapshot loaded, within the TTL
C5_Witness ==
    /\ last.op = "access"
    /\ ~last.config.present
    /\ last.reads = 0
    /\ last.ret = SNAPSHOT
    /\ ~AgeStale(last.ret)

\* what the specification accepts as a snapshot document
ValidDocument(file) ==
    /\ file.st = "json"
    /\ file.v.t = "obj"
    /\ {"_meta", "providers"} \subseteq DOMAIN file.v.f
    /\ file.v.f["_meta"].t = "obj"
    /\ file.v.f["providers"].t = "obj"
    /\ {"source", "generatedAt", "providers", "units"} \subseteq DOMAIN file.v.f["_meta"].f
    /\ file.v.f["_meta"].f["source"].t = "str"
    /\ file.v.f["_meta"].f["generatedAt"].t = "num"
    /\ file.v.f["_meta"].f["providers"].t = "arr"
    /\ file.v.f["_meta"].f["units"].t = "str"

\* providers {}, generatedAt 0, source "(unknown)"
IsEmptyPlaceholder(doc) ==
    /\ doc.f["providers"] = Obj(NoKeys)
    /\ doc.f["_meta"].f["generatedAt"] = Num(0)
    /\ doc.f["_meta"].f["source"] = Str("(unknown)")

BundledOrEmpty(doc) ==
    IF ValidDocument(bundledFile) THEN doc = bundledFile.v ELSE IsEmptyPlaceholder(doc)

\* C6: an accessor call with pricingSource "bundled" returns the bundled
\* snapshot, or the placeholder when the bundled file gives none, and
\* starts no refresh and changes nothing, whatever the cache file holds and
\* whatever happened before.
C6_BundledNeverRefreshes ==
    /\ []((last.op = "access" /\ BundledMode(last.config)) =>
            /\ BundledOrEmpty(last.ret.doc)
            /\ last.fetches = 0
            /\ last.requested = 0)
    /\ [][(last'.op = "access" /\ BundledMode(last'.config)) =>
            UNCHANGED <<tasks, REFRESH_IN_FLIGHT, SNAPSHOT, cacheFile>>]_vars

\* a bundled call returned the bundled data, older than 24h, while the cache
\* file held a valid snapshot, a snapshot was loaded and nothing was in flight
C6_Witness ==
    /\ last.op = "access"
    /\ last.config = CfgBundled
    /\ bundledFile = FileJson(DocBundledOld)
    /\ last.ret.doc = DocBundledOld
    /\ AgeStale(last.ret)
    /\ ValidDocument(cacheFile)
    /\ SNAPSHOT # NoSnap
    /\ REFRESH_IN_FLIGHT = 0

\* C7: a load in network mode takes the cache file if it holds a valid
\* document, else the bundled file under the same test, else the
\* placeholder; a cache file whose _meta.source is no string is not taken.
C7_LoadOrder ==
    (last.op = "access" /\ NetworkMode(last.config) /\ last.reads > 0) =>
        /\ IF ValidDocument(cacheFile) THEN last.ret.doc = cacheFile.v
           ELSE BundledOrEmpty(last.ret.doc)
        /\ (cacheFile = FileJson(DocNumSource) => BundledOrEmpty(last.ret.doc))
        /\ (~last.config.present => SNAPSHOT = last.ret)

\* the cache file has a numeric _meta.source and the load took the bundled data
C7_Witness ==
    /\ last.op = "access"
    /\ ~last.config.present
    /\ last.reads = 2
    /\ cacheFile = FileJson(DocNumSource)
    /\ last.ret.doc = DocBundled
    /\ SNAPSHOT = last.ret

\* own keys of the provider map of a snapshot, and of one provider's models
OwnProviders(snap) == ObjectKeys(ProvidersOf(snap))
OwnModels(snap, providerId) == ObjectKeys(GetProp(ProvidersOf(snap), providerId))

Elements(arr) == {arr.a[i] : i \in 1..Len(arr.a)}

\* C9: the snapshot a refresh installs has only providers of the five-id
\* allow-list, at least one provider, at least one model per provider, a
\* numeric input or output rate for every model, and _meta.providers lists
\* exactly the keys of the provider map.
C9_InstalledSnapshotNormalized ==
    last.op = "install" =>
        /\ OwnProviders(SNAPSHOT) \subseteq {"anthropic", "google", "moonshotai", "openai", "zai"}
        /\ OwnProviders(SNAPSHOT) # {}
        /\ \A p \in OwnProviders(SNAPSHOT) :
              /\ OwnModels(SNAPSHOT, p) # {}
              /\ \A mo \in OwnModels(SNAPSHOT, p) :
                    \/ ProvidersOf(SNAPSHOT).f[p].f[mo].f["input"].t = "num"
                    \/ ProvidersOf(SNAPSHOT).f[p].f[mo].f["output"].t = "num"
        /\ Elements(MetaOf(SNAPSHOT).f["providers"]) = OwnProviders(SNAPSHOT)
        /\ Len(MetaOf(SNAPSHOT).f["providers"].a) = Cardinality(OwnProviders(SNAPSHOT))

\* a refresh installed a snapshot with two providers, one of them with a
\* model that has only an output rate
C9_Witness ==
    /\ last.op = "install"
    /\ OwnProviders(SNAPSHOT) = {"anthropic", "zai"}
    /\ OwnModels(SNAPSHOT, "anthropic") = {"m1", "m2"}
    /\ ProvidersOf(SNAPSHOT).f["zai"].f["z"].f["input"].t = "undef"

\* the cache file holds the text JSON.stringify gives for the snapshot in
\* memory
OnDisk == cacheFile = FileJson(JSONRoundTrip(SNAPSHOT.doc))

WriteFailOps == {"mkdirFailed", "writeFailed", "writeFailedTruncated"}

\* C16 as the claim concludes: nothing but the refreshes writes the cache
\* file, a refresh installs its snapshot only when its write has succeeded,
\* hence whenever the snapshot in memory was installed by a refresh the cache
\* file holds that same snapshot.  Stated for the moments in which no
\* refresh is running, which leaves out those between a write and its
\* install.
C16_InstalledSnapshotOnDisk ==
    (installed /\ REFRESH_IN_FLIGHT = 0 /\ DOMAIN tasks = {}) => OnDisk

\* C16, amended: a step in which mkdir or writeFile fails leaves the snapshot
\* in memory as it was; a refresh installs its snapshot only in the step in
\* which its writeFile, having written the whole text, resolves, so that at
\* that moment the cache file holds the installed snapshot; and from then on
\* the two disagree only once a later refresh has written to the file, be it
\* the complete text of its own snapshot that it has not installed yet, be it
\* part of it when its write fails.
C16_InstallAfterWrite ==
    [][/\ last'.op \in WriteFailOps => SNAPSHOT' = SNAPSHOT /\ installed' = installed
       /\ (installed' /\ SNAPSHOT' # SNAPSHOT) =>
             /\ last'.op = "install"
             /\ \E id \in DOMAIN tasks :
                   /\ tasks[id].pc = "written"
                   /\ SNAPSHOT' = tasks[id].snap
                   /\ cacheFile = FileJson(JSONRoundTrip(tasks[id].snap.doc))
             /\ cacheFile' = cacheFile
             /\ OnDisk'
       /\ (installed /\ OnDisk /\ ~OnDisk') =>
             last'.op \in {"flushed", "writeFailedTruncated"}]_vars

\* a refresh has installed its snapshot, and a later refresh, started for
\* another source, failed in writeFile and left a truncated cache file: the
\* snapshot in memory is still the installed one
C16_Witness ==
    /\ installed
    /\ last.op = "writeFailedTruncated"
    /\ cacheFile = FileGarbage
    /\ SourceOf(SNAPSHOT) = Str(MODELSDEV_API_URL)
    /\ OwnProviders(SNAPSHOT) = {"anthropic", "zai"}

Max2(a, b) == IF a >= b THEN a ELSE b
Min2(a, b) == IF a <= b THEN a ELSE b

\* " ".repeat(n) and the like, for n >= 0
Repeat(ch, n) == [i \in 1..n |-> ch]

\* str.slice(start, end) with JavaScript's treatment of negative and
\* out-of-range indices
slice(str, start, end) ==
    LET from == IF start < 0 THEN Max2(Len(str) + start, 0) ELSE Min2(start, Len(str))
        to   == IF end < 0 THEN Max2(Len(str) + end, 0) ELSE Min2(end, Len(str))
    IN  IF from < to THEN SubSeq(str, from + 1, to) ELSE <<>>

\* the decimal digits of a natural number: String(n)
Digit(d) == <<"0", "1", "2", "3", "4", "5", "6", "7", "8", "9">>[d + 1]

RECURSIVE NatToString(_)
NatToString(n) == IF n < 10 THEN <<Digit(n)>> ELSE NatToString(n \div 10) \o <<Digit(n % 10)>>

\* String(n) for an integer
IntToString(n) == IF n < 0 THEN <<"-">> \o NatToString(-n) ELSE NatToString(n)

\* count.toFixed: the quotient count / unit rounded to tenths resp. to an
\* integer, halves up
formatTokenCount(count) ==
    IF count >= 1000000
    THEN NatToString(((count + 50000) \div 100000) \div 10) \o <<".">>
            \o NatToString(((count + 50000) \div 100000) % 10) \o <<"M">>
    ELSE IF count >= 10000
    THEN NatToString((count + 500) \div 1000) \o <<"K">>
    ELSE IF count >= 1000
    THEN NatToString(((count + 50) \div 100) \div 10) \o <<".">>
            \o NatToString(((count + 50) \div 100) % 10) \o <<"K">>
    ELSE IntToString(count)

\* Math.max(min, Math.min(max, Math.trunc(n))) on integers
clampInt(n, min, max) == Max2(min, Min2(max, n))

\* padRight without the truncation of line 29
padRight_noTruncate(str, width) ==
    IF Len(str) >= width THEN str
    ELSE str \o Repeat(" ", width - Len(str))

padRight(str, width) ==
    IF Len(str) >= width THEN slice(str, 0, width)
    ELSE str \o Repeat(" ", width - Len(str))

padLeft(str, width) ==
    IF Len(str) >= width THEN slice(str, Len(str) - width, Len(str))
    ELSE Repeat(" ", width - Len(str)) \o str

\* resetTimeIso: absent, the empty string, a string Date cannot parse, or
\* an instant, days * 86400000 + ms epoch milliseconds (held in two parts
\* to keep far instants within the checker's integers)
IsoAbsent  == [k |-> "absent", ms |-> 0, days |-> 0]
IsoEmpty   == [k |-> "empty", ms |-> 0, days |-> 0]
IsoInvalid == [k |-> "invalid", ms |-> 0, days |-> 0]
IsoAt(ms)  == [k |-> "date", ms |-> ms, days |-> 0]
IsoAtDays(days, ms) == [k |-> "date", ms |-> ms, days |-> days]

\* diffMs is iso.days * 86400000 + rest; its minutes are computed per part,
\* which is exact because 86400000 is a multiple of 60000
formatResetCountdown(iso) ==
    IF iso.k \in {"absent", "empty"} THEN <<"-">>
    ELSE IF iso.k = "invalid" THEN <<"r", "e", "s", "e", "t">>
    ELSE LET rest        == iso.ms - DateNow
             diffMinutes == iso.days * 1440 + rest \div 60000
             days        == diffMinutes \div 1440
             hours       == (diffMinutes % 1440) \div 60
             minutes     == diffMinutes % 60
         IN  IF diffMinutes < 0 \/ (diffMinutes = 0 /\ rest % 60000 = 0)
             THEN <<"r", "e", "s", "e", "t">>
             ELSE IF days > 0
             THEN NatToString(days) \o <<"d", " ">> \o NatToString(hours) \o <<"h">>
             ELSE NatToString(hours) \o <<"h", " ">> \o NatToString(minutes) \o <<"m">>

\* (p / 100) * width is a product of IEEE-754 doubles.  Where p * width / 100
\* is k + 1/2 the product is either exactly k + 0.5, which Math.round takes to
\* k + 1, or the double next below it (29 / 100 * 50 is 14.499999999999998),
\* which Math.round takes to k.  These are the pairs <<p, width>> of the
\* second kind for p in 0..100 and width below 100; everywhere else the
\* product rounds as the exact quotient does.
DoubleBelowHalf ==
    {<<58, 25>>, <<70, 45>>, <<29, 50>>, <<57, 50>>, <<82, 75>>, <<70, 85>>, <<35, 90>>}

\* Math.floor in place of Math.round
bar_floor(percentRemaining, width) ==
    LET p      == clampInt(percentRemaining, 0, 100)
        filled == (p * width) \div 100
    IN  Repeat("█", filled) \o Repeat("░", width - filled)

\* Math.round((p / 100) * width)
bar(percentRemaining, width) ==
    LET p      == clampInt(percentRemaining, 0, 100)
        filled == IF <<p, width>> \in DoubleBelowHalf
                  THEN (p * width) \div 100
                  ELSE (2 * p * width + 100) \div 200
    IN  Repeat("█", filled) \o Repeat("░", width - filled)

separator  == <<" ", " ">>
percentCol == 4

\* params.layout ?? { maxWidth: 50, narrowAt: 42, tinyAt: 32 }
DefaultLayout == [given |-> FALSE, maxWidth |-> 50, narrowAt |-> 42, tinyAt |-> 32]
MkLayout(maxWidth, narrowAt, tinyAt) ==
    [given |-> TRUE, maxWidth |-> maxWidth, narrowAt |-> narrowAt, tinyAt |-> tinyAt]

isTiny(layout)   == layout.maxWidth <= layout.tinyAt
isNarrow(layout) == ~isTiny(layout) /\ layout.maxWidth <= layout.narrowAt
timeCol(layout)  == IF isTiny(layout) THEN 6 ELSE IF isNarrow(layout) THEN 7 ELSE 7
barWidth(layout) == Max2(10, layout.maxWidth - Len(separator) - percentCol)
tinyNameCol(layout) ==
    layout.maxWidth - Len(separator) - timeCol(layout) - Len(separator) - percentCol

\* const timeStr = remaining === 0 ? formatResetCountdown(resetIso) : ""
timeStrOf_always(resetIso, remaining) == formatResetCountdown(resetIso)

timeStrOf(resetIso, remaining) ==
    IF remaining = 0 THEN formatResetCountdown(resetIso) ELSE <<>>

\* `${clampInt(remaining, 0, 100)}%`
percentText(remaining) == NatToString(clampInt(remaining, 0, 100)) \o <<"%">>

\* addEntry: the lines one entry adds
addEntry(layout, name, resetIso, remaining) ==
    LET timeStr == timeStrOf(resetIso, remaining)
    IN  IF isTiny(layout)
        THEN <<slice(padRight(name, tinyNameCol(layout)) \o separator
                       \o padLeft(timeStr, timeCol(layout)) \o separator
                       \o padLeft(percentText(remaining), percentCol),
                     0, layout.maxWidth)>>
        ELSE LET timeWidth == Max2(Len(timeStr), timeCol(layout))
                 nameWidth == Max2(1, barWidth(layout) - Len(separator) - timeWidth)
             IN  <<slice(padRight(name, nameWidth) \o separator \o padLeft(timeStr, timeWidth),
                         0, barWidth(layout)),
                   bar(remaining, barWidth(layout)) \o separator
                       \o padLeft(percentText(remaining), percentCol)>>

\* lower case of the letters the model's names hold
ToLower(ch) ==
    CASE ch = "A" -> "a" [] ch = "T" -> "t" [] ch = "P" -> "p" [] OTHER -> ch

LowerCase(str) == [i \in 1..Len(str) |-> ToLower(str[i])]

StartsWithI(str, prefix) ==
    Len(str) >= Len(prefix) /\ LowerCase(SubSeq(str, 1, Len(prefix))) = prefix
EndsWithI(str, suffix) ==
    Len(str) >= Len(suffix)
    /\ LowerCase(SubSeq(str, Len(str) - Len(suffix) + 1, Len(str))) = suffix

\* str.replace(/^prefix/i, "") and str.replace(/suffix$/i, "")
StripPrefixI(str, prefix) ==
    IF StartsWithI(str, prefix) THEN SubSeq(str, Len(prefix) + 1, Len(str)) ELSE str
StripSuffixI(str, suffix) ==
    IF EndsWithI(str, suffix) THEN SubSeq(str, 1, Len(str) - Len(suffix)) ELSE str

\* the one character U+2026
Ellipsis == "U+2026"

shortenModelName(name, maxLen) ==
    LET s == StripSuffixI(StripSuffixI(StripPrefixI(name, <<"a", "n", "t", "i", "g", "r", "a", "v", "i", "t", "y", "-">>),
                                       <<"-", "t", "h", "i", "n", "k", "i", "n", "g">>),
                          <<"-", "p", "r", "e", "v", "i", "e", "w">>)
    IN  IF Len(name) <= maxLen THEN name
        ELSE IF Len(s) <= maxLen THEN s
        ELSE slice(s, 0, maxLen - 1) \o <<Ellipsis>>

\* the line of one model of the session token summary
sessionModelLine(model) ==
    <<" ", " ">> \o padRight(shortenModelName(model.modelID, 20), 20) \o <<" ", " ">>
        \o padLeft(formatTokenCount(model.input), 6) \o <<" ", "i", "n", " ", " ">>
        \o padLeft(formatTokenCount(model.output), 6) \o <<" ", "o", "u", "t">>

\* the lines of all entries, in input order
RECURSIVE entryLines(_, _)
entryLines(layout, entries) ==
    IF entries = <<>> THEN <<>>
    ELSE addEntry(layout, Head(entries).name, Head(entries).resetTimeIso,
                  Head(entries).percentRemaining)
         \o entryLines(layout, Tail(entries))

\* `${err.label}: ${err.message}`
errorLine(err) == err.label \o <<":", " ">> \o err.message

SessionTokensHeader == <<"S", "e", "s", "s", "i", "o", "n", " ", "T", "o", "k", "e", "n", "s">>

\* formatQuotaRows without the test of line 145: the blank line is pushed
\* whether or not a line precedes it
formatQuotaRows_alwaysBlank(params) ==
    LET lines1 == entryLines(params.layout, params.entries)
                     \o [i \in 1..Len(params.errors) |-> errorLine(params.errors[i])]
    IN  IF params.sessionTokens.given /\ Len(params.sessionTokens.models) > 0
        THEN lines1 \o <<<<>>>> \o <<SessionTokensHeader>>
                 \o [i \in 1..Len(params.sessionTokens.models) |->
                        sessionModelLine(params.sessionTokens.models[i])]
        ELSE lines1

\* formatQuotaRows in the classic style: the lines it joins with "\n"
formatQuotaRows(params) ==
    LET lines1 == entryLines(params.layout, params.entries)
                     \o [i \in 1..Len(params.errors) |-> errorLine(params.errors[i])]
    IN  IF params.sessionTokens.given /\ Len(params.sessionTokens.models) > 0
        THEN (IF Len(lines1) > 0 THEN lines1 \o <<<<>>>> ELSE lines1)
                 \o <<SessionTokensHeader>>
                 \o [i \in 1..Len(params.sessionTokens.models) |->
                        sessionModelLine(params.sessionTokens.models[i])]
        ELSE lines1

\* One call of padRight or padLeft: the function, its arguments and what it
\* returned.
PadCall(fn, str, width) ==
    [fn |-> fn, str |-> str, width |-> width,
     out |-> IF fn = "padRight" THEN padRight(str, width) ELSE padLeft(str, width)]

\* the calls addEntry makes
addEntryPads(layout, name, resetIso, remaining) ==
    LET timeStr == timeStrOf(resetIso, remaining)
    IN  IF isTiny(layout)
        THEN {PadCall("padRight", name, tinyNameCol(layout)),
              PadCall("padLeft", timeStr, timeCol(layout)),
              PadCall("padLeft", percentText(remaining), percentCol)}
        ELSE LET timeWidth == Max2(Len(timeStr), timeCol(layout))
                 nameWidth == Max2(1, barWidth(layout) - Len(separator) - timeWidth)
             IN  {PadCall("padRight", name, nameWidth),
                  PadCall("padLeft", timeStr, timeWidth),
                  PadCall("padLeft", percentText(remaining), percentCol)}

\* the calls of the session token summary
sessionModelPads(model) ==
    {PadCall("padRight", shortenModelName(model.modelID, 20), 20),
     PadCall("padLeft", formatTokenCount(model.input), 6),
     PadCall("padLeft", formatTokenCount(model.output), 6)}

\* every call of padRight and padLeft that formatQuotaRows(params) makes
padCalls(params) ==
    UNION {addEntryPads(params.layout, params.entries[i].name, params.entries[i].resetTimeIso,
                        params.entries[i].percentRemaining) : i \in 1..Len(params.entries)}
    \cup (IF params.sessionTokens.given /\ Len(params.sessionTokens.models) > 0
          THEN UNION {sessionModelPads(params.sessionTokens.models[i]) :
                         i \in 1..Len(params.sessionTokens.models)}
          ELSE {})


(***************************************************************************)
(* Inputs of the formatter                                                 *)
(***************************************************************************)
HourMs == 60 * 60 * 1000

\* layouts: absent (default 50/42/32), narrow, tiny, tiny below the width of
\* the fixed columns, and wide
Layouts == {DefaultLayout, MkLayout(40, 42, 32), MkLayout(32, 42, 32), MkLayout(20, 42, 32),
            MkLayout(12, 42, 32), MkLayout(80, 42, 32)}

MkEntry(name, resetTimeIso, percentRemaining) ==
    [name |-> name, resetTimeIso |-> resetTimeIso, percentRemaining |-> percentRemaining]

NameCopilot == <<"C", "o", "p", "i", "l", "o", "t">>
NameClaude  == <<"C", "l", "a", "u", "d", "e", " ", "(", "a", "b", "c", ".", ".", "g", "m", "a", "i", "l", ")">>

\* an hour, and two days and three hours, after the formatter's clock
InOneHour == IsoAt(InitTick * TickMs + HourMs)
InTwoDays == IsoAt(InitTick * TickMs + 51 * HourMs)
LongAgo   == IsoAt(0)

Entries ==
    {MkEntry(NameCopilot, InOneHour, 37), MkEntry(NameClaude, IsoAbsent, 37),
     MkEntry(NameCopilot, InOneHour, 0), MkEntry(NameClaude, InTwoDays, 0),
     MkEntry(NameCopilot, LongAgo, 0), MkEntry(NameClaude, IsoAbsent, 0),
     MkEntry(NameCopilot, IsoInvalid, 100), MkEntry(NameClaude, InTwoDays, 150),
     MkEntry(NameCopilot, InOneHour, -5), MkEntry(NameCopilot, IsoEmpty, 1)}

MaxEntries == 2

EntryLists == UNION {[1..n -> Entries] : n \in 0..MaxEntries}

MkError(label, message) == [label |-> label, message |-> message]

ErrorLists ==
    {<<>>,
     <<MkError(<<"C", "o", "p", "i", "l", "o", "t">>, <<"H", "T", "T", "P", " ", "4", "0", "1">>)>>,
     <<MkError(<<"Z", "a", "i">>, <<"t", "i", "m", "e", "o", "u", "t">>),
       MkError(<<"C", "o", "p", "i", "l", "o", "t">>, <<"H", "T", "T", "P", " ", "4", "0", "1">>)>>}

MkModel(modelID, input, output) == [modelID |-> modelID, input |-> input, output |-> output]

NoSessionTokens == [given |-> FALSE, models |-> <<>>]
MkSessionTokens(models) == [given |-> TRUE, models |-> models]

SessionTokensPool ==
    {NoSessionTokens, MkSessionTokens(<<>>),
     MkSessionTokens(<<MkModel(<<"a", "n", "t", "i", "g", "r", "a", "v", "i", "t", "y", "-", "c", "l", "a", "u", "d", "e", "-", "o", "p", "u", "s", "-", "4", "-", "5", "-", "t", "h", "i", "n", "k", "i", "n", "g">>, 999, 1000),
                       MkModel(<<"g", "p", "t", "-", "5">>, 12345, 1200000)>>)}

\* one entry at every width and every percentage: both threshold pairs at
\* every maxWidth, so that every width is rendered tiny and not tiny
MaxMaxWidth == 60
PercentMargin == 2
MinPercent  == 0 - PercentMargin
MaxPercent  == 100 + PercentMargin

WideLayouts ==
    {MkLayout(w, 42, 32) : w \in 1..MaxMaxWidth}
        \cup {MkLayout(w, 12, 8) : w \in (9..20) \cup {31, 51, 56}}

\* a hundred days and twenty-three hours after the formatter's clock
InHundredDays == IsoAtDays(100, InitTick * TickMs + 23 * HourMs)

WideEntries ==
    {MkEntry(name, iso, p) : name \in {NameCopilot, NameClaude},
                             iso \in {IsoAbsent, InOneHour, InHundredDays},
                             p \in MinPercent..MaxPercent}

FmtParams ==
    [layout : Layouts, entries : EntryLists, errors : ErrorLists, sessionTokens : SessionTokensPool]
        \cup [layout : WideLayouts, entries : {<<e>> : e \in WideEntries},
              errors : {<<>>}, sessionTokens : {NoSessionTokens}]

(***************************************************************************)
(* SpecFmt: formatQuotaRows is called once on inputs of the pools          *)
(***************************************************************************)
InitFmt ==
    /\ SNAPSHOT = NoSnap
    /\ installed = FALSE
    /\ REFRESH_IN_FLIGHT = 0
    /\ tasks = <<>>
    /\ cacheFile = FileAbsent
    /\ bundledFile = FileAbsent
    /\ now = InitTick
    /\ last = LastBase("init")
    /\ \E params \in FmtParams :
          fmt = [pc |-> "call", params |-> params, lines |-> <<>>, pads |-> {}]
    /\ fw = FwOff
    /\ conf = ConfOff

\* formatQuotaRows(params) with style "classic" (or none) returns
FormatQuotaRows ==
    /\ fmt.pc = "call"
    /\ fmt' = [fmt EXCEPT !.pc = "done", !.lines = formatQuotaRows(fmt.params),
                          !.pads = padCalls(fmt.params)]
    /\ UNCHANGED <<SNAPSHOT, installed, REFRESH_IN_FLIGHT, tasks, cacheFile, bundledFile, now, last, fw, conf>>

NextFmt == FormatQuotaRows

SpecFmt == InitFmt /\ [][NextFmt]_vars

(***************************************************************************)
(* Properties of the formatter                                             *)
(***************************************************************************)
\* the index in fmt.lines of the first line of entry i
EntryLineIndex(i) == IF isTiny(fmt.params.layout) THEN i ELSE 2 * i - 1

\* The time field of the line of entry i: the timeCol characters after the
\* name column and the separator, as far as the line reaches.
TimeField(i) ==
    LET layout == fmt.params.layout
        line   == fmt.lines[EntryLineIndex(i)]
        start  == IF isTiny(layout)
                  THEN Len(padRight(fmt.params.entries[i].name, tinyNameCol(layout))) + 2
                  ELSE Max2(1, barWidth(layout) - 2 - 7) + 2
    IN  slice(line, start, start + timeCol(layout))

AllSpaces(str) == \A k \in 1..Len(str) : str[k] = " "

\* C10: in the classic formatter, tiny or not, the time field of an entry's
\* line holds anything but spaces only when percentRemaining is 0; for every
\* other percentRemaining it is blank, whether resetTimeIso is present or not.
C10_TimeFieldOnlyAtZero ==
    fmt.pc = "done" =>
        \A i \in 1..Len(fmt.params.entries) :
            fmt.params.entries[i].percentRemaining # 0 => AllSpaces(TimeField(i))

\* a tiny layout rendered an entry at 37% that has a reset time, with a blank
\* time field of full width, next to an entry at 0% that shows its countdown
C10_Witness ==
    /\ fmt.pc = "done"
    /\ isTiny(fmt.params.layout)
    /\ Len(fmt.params.entries) = 2
    /\ fmt.params.entries[1] = MkEntry(NameCopilot, InOneHour, 37)
    /\ TimeField(1) = Repeat(" ", 6)
    /\ fmt.params.entries[2].percentRemaining = 0
    /\ TimeField(2) = <<" ", "1", "h", " ", "0", "m">>

\* the number of leading characters of str that are ch
Leading(str, ch) ==
    CHOOSE n \in 0..Len(str) :
        /\ \A k \in 1..n : str[k] = ch
        /\ n = Len(str) \/ str[n + 1] # ch

\* max(10, maxWidth - 6) and clamp(percentRemaining, 0, 100), written out
ClaimedBarWidth(layout) == IF layout.maxWidth - 6 > 10 THEN layout.maxWidth - 6 ELSE 10
ClaimedClamp(p) == IF p < 0 THEN 0 ELSE IF p > 100 THEN 100 ELSE p

\* line is W glyphs, f filled ones and then empty ones, then two spaces,
\* then the percentage p right-aligned in four characters
BarLineShape(line, W, p, f) ==
    /\ Len(line) = W + 2 + 4
    /\ f <= W
    /\ SubSeq(line, 1, W) = Repeat("█", f) \o Repeat("░", W - f)
    /\ line[W + 1] = " " /\ line[W + 2] = " "
    /\ LET cell == NatToString(p) \o <<"%">>
       IN  SubSeq(line, W + 3, W + 6) = Repeat(" ", 4 - Len(cell)) \o cell

\* C11 as the claim states it: in every layout that is not tiny, the first
\* line of an entry is at most barWidth = max(10, maxWidth - 6) long, and the
\* second is a bar of exactly barWidth glyphs, round(clamp(percentRemaining,
\* 0, 100) / 100 * barWidth) of them filled (the quotient rounded to the
\* nearest integer, a half upwards), then the separator, then the 4-character
\* percent cell.
C11_BarLineRounded ==
    (fmt.pc = "done" /\ ~isTiny(fmt.params.layout)) =>
        \A i \in 1..Len(fmt.params.entries) :
            \A W \in {ClaimedBarWidth(fmt.params.layout)} :
            \A p \in {ClaimedClamp(fmt.params.entries[i].percentRemaining)} :
            \A f \in {Leading(fmt.lines[2 * i], "█")} :
                /\ Len(fmt.lines[2 * i - 1]) <= W
                /\ BarLineShape(fmt.lines[2 * i], W, p, f)
                /\ f = (2 * p * W + 100) \div 200

\* C11, amended: as above, but the number of filled glyphs is a nearest
\* integer to clamp(percentRemaining, 0, 100) / 100 * barWidth: at most one
\* half away from it, a half going either way.
C11_BarLineNearest ==
    (fmt.pc = "done" /\ ~isTiny(fmt.params.layout)) =>
        \A i \in 1..Len(fmt.params.entries) :
            \A W \in {ClaimedBarWidth(fmt.params.layout)} :
            \A p \in {ClaimedClamp(fmt.params.entries[i].percentRemaining)} :
            \A f \in {Leading(fmt.lines[2 * i], "█")} :
                /\ Len(fmt.lines[2 * i - 1]) <= W
                /\ BarLineShape(fmt.lines[2 * i], W, p, f)
                /\ 100 * f - 50 <= p * W /\ p * W <= 100 * f + 50

\* maxWidth 56, not tiny: an entry at 29% got a first line of 50 characters
\* and a bar of 50 glyphs of which 14 are filled
C11_Witness ==
    /\ fmt.pc = "done"
    /\ fmt.params.layout = MkLayout(56, 12, 8)
    /\ fmt.params.entries[1].percentRemaining = 29
    /\ Len(fmt.lines[1]) = 50
    /\ Len(fmt.lines[2]) = 56
    /\ Leading(fmt.lines[2], "█") = 14

\* out is str followed by spaces resp. spaces followed by str, or the first
\* resp. last width characters of str
PaddedOrTruncated(c) ==
    IF Len(c.str) <= c.width
    THEN c.out = (IF c.fn = "padRight" THEN c.str \o Repeat(" ", c.width - Len(c.str))
                  ELSE Repeat(" ", c.width - Len(c.str)) \o c.str)
    ELSE c.out = (IF c.fn = "padRight" THEN SubSeq(c.str, 1, c.width)
                  ELSE SubSeq(c.str, Len(c.str) - c.width + 1, Len(c.str)))

\* C12 as the claim states it: whatever string and width the formatter
\* passes, the tiny name column maxWidth - 14 of every maxWidth > 0 included,
\* padRight and padLeft return a string of exactly that width, the argument
\* padded with spaces when shorter and truncated when longer.
C12_PadExactWidth ==
    fmt.pc = "done" =>
        \A c \in fmt.pads : Len(c.out) = c.width /\ PaddedOrTruncated(c)

\* C12, amended: the above for every width that is not negative.  A negative
\* width is passed only as the tiny name column of a maxWidth below 14, and
\* padRight then returns the name without its last 14 - maxWidth characters.
C12_PadExactWidthNonNegative ==
    fmt.pc = "done" =>
        \A c \in fmt.pads :
            IF c.width >= 0
            THEN Len(c.out) = c.width /\ PaddedOrTruncated(c)
            ELSE /\ c.fn = "padRight"
                 /\ isTiny(fmt.params.layout)
                 /\ c.width = fmt.params.layout.maxWidth - 14
                 /\ c.out = SubSeq(c.str, 1, Len(c.str) + c.width)

\* a tiny layout of maxWidth 20 rendered an exhausted entry: the name was cut
\* to the 6 characters of the name column, the countdown "100d 23h" to its
\* last 6 characters, and "0%" was padded to 4
C12_Witness ==
    /\ fmt.pc = "done"
    /\ fmt.params.layout = MkLayout(20, 42, 32)
    /\ \E c \in fmt.pads :
          /\ c.fn = "padRight" /\ c.str = NameCopilot
          /\ c.out = <<"C", "o", "p", "i", "l", "o">>
    /\ \E c \in fmt.pads :
          /\ c.fn = "padLeft" /\ c.width = 6
          /\ c.str = <<"1", "0", "0", "d", " ", "2", "3", "h">>
          /\ c.out = <<"0", "d", " ", "2", "3", "h">>
    /\ \E c \in fmt.pads :
          c.fn = "padLeft" /\ c.width = 4 /\ c.out = <<" ", " ", "0", "%">>

\* line begins with a prefix of name that is followed by a space or ends the
\* name or the line
StartsWithName(line, name) ==
    \E k \in 1..Min2(Len(name), Len(line)) :
        /\ SubSeq(line, 1, k) = SubSeq(name, 1, k)
        /\ k = Len(name) \/ k = Len(line) \/ line[k + 1] = " "

\* how many characters of name the first line of its entry can show: a tiny
\* layout has a name column of maxWidth - 14, which is empty at maxWidth 14
\* and cuts the name from its end below that
NameShown(layout, name) ==
    IF ~isTiny(layout) THEN 1
    ELSE IF layout.maxWidth >= 14 THEN Min2(layout.maxWidth - 14, Len(name))
    ELSE Min2(layout.maxWidth, Max2(0, Len(name) + layout.maxWidth - 14))

\* line is the summary line of model: two spaces, the shortened id in 20
\* columns, the input count in 6, " in", the output count in 6, " out"
IsModelLine(line, model) ==
    /\ Len(line) = 45
    /\ SubSeq(line, 1, 2) = <<" ", " ">>
    /\ SubSeq(line, 3, 22) = padRight(shortenModelName(model.modelID, 20), 20)
    /\ SubSeq(line, 25, 30) = padLeft(formatTokenCount(model.input), 6)
    /\ SubSeq(line, 31, 33) = <<" ", "i", "n">>
    /\ SubSeq(line, 36, 41) = padLeft(formatTokenCount(model.output), 6)
    /\ SubSeq(line, 42, 45) = <<" ", "o", "u", "t">>

\* C13: the lines of the classic formatter are the entry lines in input
\* order (two per entry, one in a tiny layout), then one line "label: message"
\* per error in input order, then, only when sessionTokens.models is not
\* empty, a blank line exactly when a line precedes it, the header "Session
\* Tokens" and one line per model in input order; nothing else.
C13_LineOrder ==
    fmt.pc = "done" =>
        LET L       == fmt.lines
            entries == fmt.params.entries
            errors  == fmt.params.errors
            models  == IF fmt.params.sessionTokens.given
                       THEN fmt.params.sessionTokens.models ELSE <<>>
            per     == IF isTiny(fmt.params.layout) THEN 1 ELSE 2
            n       == per * Len(entries)
            m       == Len(errors)
            b       == IF n + m > 0 THEN 1 ELSE 0
        IN  /\ Len(L) = n + m + (IF Len(models) > 0 THEN b + 1 + Len(models) ELSE 0)
            /\ \A i \in 1..Len(entries) :
                  /\ NameShown(fmt.params.layout, entries[i].name) > 0 =>
                        StartsWithName(L[per * (i - 1) + 1], entries[i].name)
                  /\ per = 2 =>
                        /\ L[2 * i][1] \in {"█", "░"}
                        /\ LET cell == NatToString(ClaimedClamp(entries[i].percentRemaining))
                                           \o <<"%">>
                           IN  SubSeq(L[2 * i], Len(L[2 * i]) - Len(cell) + 1, Len(L[2 * i]))
                                   = cell
            /\ \A j \in 1..m : L[n + j] = errors[j].label \o <<":", " ">> \o errors[j].message
            /\ Len(models) > 0 =>
                  /\ b = 1 => L[n + m + 1] = <<>>
                  /\ L[n + m + b + 1] = SessionTokensHeader
                  /\ \A j \in 1..Len(models) : IsModelLine(L[n + m + b + 1 + j], models[j])

\* two entries in a layout that is not tiny, two errors and two models gave
\* ten lines, the seventh blank and the eighth the header
C13_Witness ==
    /\ fmt.pc = "done"
    /\ ~isTiny(fmt.params.layout)
    /\ Len(fmt.params.entries) = 2
    /\ fmt.params.entries[1].name # fmt.params.entries[2].name
    /\ Len(fmt.params.errors) = 2
    /\ Len(fmt.params.sessionTokens.models) = 2
    /\ Len(fmt.lines) = 10
    /\ fmt.lines[7] = <<>>
    /\ fmt.lines[8] = SessionTokensHeader

(***************************************************************************)
(* firmware-config.ts: the Firmware API key                                *)
(*                                                                         *)
(* Strings are sequences of characters.  process.env maps the names it     *)
(* holds to strings.  A configuration file is absent, holds text that      *)
(* JSON.parse rejects, holds JSON, or holds JSON with comments.            *)
(***************************************************************************)
\* String.prototype.trim, for strings whose only white space is the space
strTrim(str) ==
    LET inked == {i \in 1..Len(str) : str[i] # " "}
    IN  IF inked = {} THEN <<>>
        ELSE SubSeq(str, CHOOSE i \in inked : \A j \in inked : i <= j,
                         CHOOSE i \in inked : \A j \in inked : i >= j)

FIRMWARE_AI_API_KEY ==
    <<"F", "I", "R", "M", "W", "A", "R", "E", "_", "A", "I", "_", "A", "P", "I", "_", "K", "E", "Y">>
FIRMWARE_API_KEY ==
    <<"F", "I", "R", "M", "W", "A", "R", "E", "_", "A", "P", "I", "_", "K", "E", "Y">>

\* process.env[name]
processEnv(env, name) == IF name \in DOMAIN env THEN Str(env[name]) ELSE Undef

\* JSON text with comments, which parses to v once they are stripped
FileJsonc(v) == [st |-> "jsonc", v |-> v]

\* parseJsonOrJsonc on the content of a file: comments are stripped from a
\* .jsonc file only, and JSON.parse throws on what is left of them
parseJsonOrJsonc(content, isJsonc) ==
    CASE content.st = "json"             -> [ok |-> TRUE, v |-> content.v]
      [] content.st = "jsonc" /\ isJsonc -> [ok |-> TRUE, v |-> content.v]
      [] OTHER                           -> [ok |-> FALSE, v |-> Undef]

\* value.match(/^\{env:([^}]+)\}$/)
EnvTemplatePrefix == <<"{", "e", "n", "v", ":">>
matchEnvTemplate(value) ==
    /\ Len(value) >= 7
    /\ SubSeq(value, 1, 5) = EnvTemplatePrefix
    /\ value[Len(value)] = "}"
    /\ \A i \in 6..(Len(value) - 1) : value[i] # "}"

resolveEnvTemplate(value, env) ==
    IF ~matchEnvTemplate(value) THEN Str(value)
    ELSE LET envValue == processEnv(env, SubSeq(value, 6, Len(value) - 1))
         IN  IF envValue.t = "str" /\ Len(envValue.s) > 0 /\ Len(strTrim(envValue.s)) > 0
             THEN Str(strTrim(envValue.s))
             ELSE JNull

\* !x || typeof x !== "object": null, undefined, strings and numbers fail
\* the test of each level; an array passes it
isObjectValue(x) == x.t \in {"obj", "arr"}

extractFirmwareKeyFromConfig(config, env) ==
    IF ~isObjectValue(config) THEN JNull
    ELSE LET provider == GetProp(config, "provider")
         IN  IF ~isObjectValue(provider) THEN JNull
    ELSE LET firmware == GetProp(provider, "firmware")
         IN  IF ~isObjectValue(firmware) THEN JNull
    ELSE LET options == GetProp(firmware, "options")
         IN  IF ~isObjectValue(options) THEN JNull
    ELSE LET apiKey == GetProp(options, "apiKey")
         IN  IF apiKey.t # "str" \/ Len(strTrim(apiKey.s)) = 0 THEN JNull
             ELSE resolveEnvTemplate(strTrim(apiKey.s), env)

\* the candidates with the global directory before the working directory
getOpencodeConfigCandidatePaths_globalFirst ==
    <<[path |-> "global/opencode.jsonc", isJsonc |-> TRUE],
      [path |-> "global/opencode.json", isJsonc |-> FALSE],
      [path |-> "cwd/opencode.jsonc", isJsonc |-> TRUE],
      [path |-> "cwd/opencode.json", isJsonc |-> FALSE]>>

\* getOpencodeConfigCandidatePaths: the index of each path in the files of
\* the model, and whether it is a .jsonc file
getOpencodeConfigCandidatePaths ==
    <<[path |-> "cwd/opencode.jsonc", isJsonc |-> TRUE],
      [path |-> "cwd/opencode.json", isJsonc |-> FALSE],
      [path |-> "global/opencode.jsonc", isJsonc |-> TRUE],
      [path |-> "global/opencode.json", isJsonc |-> FALSE]>>

\* readOpencodeConfig: null when the file is absent or anything throws
readOpencodeConfig(files, filePath, isJsonc) ==
    IF files[filePath].st = "absent" THEN JNull
    ELSE IF ~parseJsonOrJsonc(files[filePath], isJsonc).ok THEN JNull
    ELSE Obj("config" :> parseJsonOrJsonc(files[filePath], isJsonc).v)

\* { key, source }
KeyResult(key, source) == [found |-> TRUE, key |-> key, source |-> source]
NoKeyResult == [found |-> FALSE, key |-> <<>>, source |-> "null"]

\* const envKey = process.env.NAME?.trim(); envKey && envKey.length > 0
envKeyOf(env, name) ==
    IF processEnv(env, name).t = "str" /\ Len(strTrim(processEnv(env, name).s)) > 0
    THEN Str(strTrim(processEnv(env, name).s))
    ELSE Undef

\* step 1 of resolveFirmwareApiKey: the two environment variables
resolveFromEnv(env) ==
    IF envKeyOf(env, FIRMWARE_AI_API_KEY).t = "str"
    THEN KeyResult(envKeyOf(env, FIRMWARE_AI_API_KEY).s, "env:FIRMWARE_AI_API_KEY")
    ELSE IF envKeyOf(env, FIRMWARE_API_KEY).t = "str"
    THEN KeyResult(envKeyOf(env, FIRMWARE_API_KEY).s, "env:FIRMWARE_API_KEY")
    ELSE NoKeyResult

\* one round of the loop of step 2: the candidate is read and searched
resolveFromCandidate(files, env, candidate) ==
    LET result == readOpencodeConfig(files, candidate.path, candidate.isJsonc)
        key    == extractFirmwareKeyFromConfig(GetProp(result, "config"), env)
    IN  IF result = JNull THEN NoKeyResult
        ELSE IF key.t = "str" /\ Len(key.s) > 0
        THEN KeyResult(key.s, IF candidate.isJsonc THEN "opencode.jsonc" ELSE "opencode.json")
        ELSE NoKeyResult

\* step 3: auth is what readAuthFile() resolved to
resolveFromAuth(auth) ==
    LET firmware == IF auth = JNull THEN Undef ELSE GetProp(auth, "firmware")
    IN  IF /\ firmware.t = "obj"
           /\ GetProp(firmware, "type") = Str("api")
           /\ GetProp(firmware, "key").t = "str"
           /\ Len(GetProp(firmware, "key").s) > 0
           /\ Len(strTrim(GetProp(firmware, "key").s)) > 0
        THEN KeyResult(strTrim(GetProp(firmware, "key").s), "auth.json")
        ELSE NoKeyResult

(***************************************************************************)
(* Inputs of resolveFirmwareApiKey                                         *)
(***************************************************************************)
Unset      == [set |-> FALSE, v |-> <<>>]
SetTo(str) == [set |-> TRUE, v |-> str]

VarV == <<"V">>

\* process.env holding the three variables that are set
MkEnv(ai, legacy, v) ==
    LET val == (FIRMWARE_AI_API_KEY :> ai) @@ (FIRMWARE_API_KEY :> legacy) @@ (VarV :> v)
    IN  [name \in {n \in DOMAIN val : val[n].set} |-> val[name].v]

Envs ==
    {MkEnv(ai, legacy, v) : ai \in {Unset, SetTo(<<" ", " ">>), SetTo(<<" ", "k", "a", " ">>)},
                            legacy \in {Unset, SetTo(<<"k", "b">>)},
                            v \in {Unset, SetTo(<<" ">>), SetTo(<<" ", "k", "v", " ">>)}}

\* { provider: { firmware: { options: { apiKey } } } }
KeyDoc(apiKey) ==
    Obj("provider" :> Obj("firmware" :> Obj("options" :> Obj("apiKey" :> Str(apiKey)))))

TemplateV == <<"{", "e", "n", "v", ":", "V", "}">>

\* the key each candidate file holds when it holds a literal one
LiteralKey ==
    ("cwd/opencode.jsonc" :> <<" ", "c", "1", " ">>) @@ ("cwd/opencode.json" :> <<"c", "2">>)
        @@ ("global/opencode.jsonc" :> <<"g", "1">>) @@ ("global/opencode.json" :> <<"g", "2">>)

ConfigPaths == DOMAIN LiteralKey

\* a file is absent, holds its literal key with or without comments around
\* it, refers to the variable V, or holds a blank key
FilesOf(path) ==
    {FileAbsent, FileJsonc(KeyDoc(LiteralKey[path])), FileJson(KeyDoc(LiteralKey[path])),
     FileJson(KeyDoc(TemplateV)), FileJson(KeyDoc(<<" ">>))}

FileSystems == {f \in [ConfigPaths -> UNION {FilesOf(path) : path \in ConfigPaths}] :
                   \A path \in ConfigPaths : f[path] \in FilesOf(path)}

\* what readAuthFile() resolves to: null, no firmware entry, an api entry
\* with a key or with a blank key, an entry of another type with a key
AuthKey == <<" ", "k", "z">>
Auths ==
    {JNull, Obj(NoKeys),
     Obj("firmware" :> Obj("type" :> Str("api") @@ "key" :> Str(AuthKey))),
     Obj("firmware" :> Obj("type" :> Str("api") @@ "key" :> Str(<<" ">>))),
     Obj("firmware" :> Obj("type" :> Str("wellknown") @@ "key" :> Str(AuthKey)))}

(***************************************************************************)
(* SpecKey: one call of resolveFirmwareApiKey, an await at a time          *)
(***************************************************************************)
InitKey ==
    /\ SNAPSHOT = NoSnap
    /\ installed = FALSE
    /\ REFRESH_IN_FLIGHT = 0
    /\ tasks = <<>>
    /\ cacheFile = FileAbsent
    /\ bundledFile = FileAbsent
    /\ now = InitTick
    /\ last = LastBase("init")
    /\ fmt = FmtOff
    /\ conf = ConfOff
    /\ \E env \in Envs, files \in FileSystems, auth \in Auths :
          fw = [pc |-> "call", env |-> env, files |-> files, auth |-> auth, i |-> 0,
                result |-> NoKeyResult]

KeyUnchanged ==
    UNCHANGED <<SNAPSHOT, installed, REFRESH_IN_FLIGHT, tasks, cacheFile, bundledFile, now, last, fmt, conf>>

\* the call runs to its first await or returns a key of the environment
ResolveEnv ==
    /\ fw.pc = "call"
    /\ \E r \in {resolveFromEnv(fw.env)} :
          fw' = IF r.found THEN [fw EXCEPT !.pc = "done", !.result = r]
                ELSE [fw EXCEPT !.pc = "candidate", !.i = 1]
    /\ KeyUnchanged

\* await readOpencodeConfig(...) of candidate i resolves
ResolveCandidate ==
    /\ fw.pc = "candidate"
    /\ \E r \in {resolveFromCandidate(fw.files, fw.env, getOpencodeConfigCandidatePaths[fw.i])} :
          fw' = IF r.found THEN [fw EXCEPT !.pc = "done", !.result = r]
                ELSE IF fw.i < Len(getOpencodeConfigCandidatePaths)
                THEN [fw EXCEPT !.i = fw.i + 1]
                ELSE [fw EXCEPT !.pc = "auth"]
    /\ KeyUnchanged

\* await readAuthFile() resolves
ResolveAuth ==
    /\ fw.pc = "auth"
    /\ fw' = [fw EXCEPT !.pc = "done", !.result = resolveFromAuth(fw.auth)]
    /\ KeyUnchanged

NextKey == ResolveEnv \/ ResolveCandidate \/ ResolveAuth

SpecKey == InitKey /\ [][NextKey]_vars

(***************************************************************************)
(* Properties of resolveFirmwareApiKey                                     *)
(***************************************************************************)
\* a source offers the key str when str, trimmed, is not empty
Offer(isString, str, source) ==
    IF isString /\ Len(strTrim(str)) > 0 THEN KeyResult(strTrim(str), source) ELSE NoKeyResult

\* what an environment variable offers
OfferOfEnv(name, source) ==
    Offer(name \in DOMAIN fw.env, IF name \in DOMAIN fw.env THEN fw.env[name] ELSE <<>>, source)

\* What the file at path offers: the file is there and parses (comments are
\* allowed in a .jsonc file only); its provider.firmware.options.apiKey is
\* the key, or names the environment variable that holds it.
OfferOfFile(path, isJsonc, source) ==
    LET file   == fw.files[path]
        apiKey == GetProp(GetProp(GetProp(GetProp(file.v, "provider"), "firmware"),
                                  "options"), "apiKey")
        text   == IF apiKey.t = "str" THEN strTrim(apiKey.s) ELSE <<>>
    IN  IF ~(file.st = "json" \/ (file.st = "jsonc" /\ isJsonc)) THEN NoKeyResult
        ELSE IF matchEnvTemplate(text)
        THEN OfferOfEnv(SubSeq(text, 6, Len(text) - 1), source)
        ELSE Offer(apiKey.t = "str", text, source)

\* what auth.json offers: firmware.key, of an entry of any type resp. of an
\* entry of type "api"
OfferOfAuth(apiOnly) ==
    LET firmware == IF fw.auth = JNull THEN Undef ELSE GetProp(fw.auth, "firmware")
        key      == GetProp(firmware, "key")
    IN  IF apiOnly /\ GetProp(firmware, "type") # Str("api") THEN NoKeyResult
        ELSE Offer(key.t = "str", IF key.t = "str" THEN key.s ELSE <<>>, "auth.json")

\* the sources in the order of their priority
Offers(apiOnly) ==
    <<OfferOfEnv(FIRMWARE_AI_API_KEY, "env:FIRMWARE_AI_API_KEY"),
      OfferOfEnv(FIRMWARE_API_KEY, "env:FIRMWARE_API_KEY"),
      OfferOfFile("cwd/opencode.jsonc", TRUE, "opencode.jsonc"),
      OfferOfFile("cwd/opencode.json", FALSE, "opencode.json"),
      OfferOfFile("global/opencode.jsonc", TRUE, "opencode.jsonc"),
      OfferOfFile("global/opencode.json", FALSE, "opencode.json"),
      OfferOfAuth(apiOnly)>>

\* the first offer that holds a key, or none
FirstOffer(offers) ==
    IF \E i \in 1..Len(offers) : offers[i].found
    THEN offers[CHOOSE i \in 1..Len(offers) :
                    offers[i].found /\ \A j \in 1..(i - 1) : ~offers[j].found]
    ELSE NoKeyResult

\* C14 as the claim states it: resolveFirmwareApiKey returns the first key
\* that is not empty of env FIRMWARE_AI_API_KEY, env FIRMWARE_API_KEY, the
\* apiKey of cwd/opencode.jsonc, cwd/opencode.json, the global opencode.jsonc,
\* the global opencode.json, and firmware.key of auth.json, with the name of
\* its source; a file whose apiKey refers to an unset or blank variable is
\* passed over; null is returned only when no source has a key.
C14_FirstKeyWins ==
    fw.pc = "done" => fw.result = FirstOffer(Offers(FALSE))

\* C14, amended: the same, where auth.json supplies firmware.key only when
\* firmware.type is "api".
C14_FirstKeyWinsApiAuth ==
    fw.pc = "done" => fw.result = FirstOffer(Offers(TRUE))

\* Both environment keys are unset or blank, cwd/opencode.jsonc refers to a
\* blank variable V and is passed over, cwd/opencode.json holds a blank key,
\* and the key of the global opencode.jsonc, a file with comments, was
\* returned, although opencode.json next to it and auth.json hold keys too.
C14_Witness ==
    /\ fw.pc = "done"
    /\ FIRMWARE_API_KEY \notin DOMAIN fw.env
    /\ VarV \in DOMAIN fw.env /\ fw.env[VarV] = <<" ">>
    /\ fw.files["cwd/opencode.jsonc"] = FileJson(KeyDoc(TemplateV))
    /\ fw.files["cwd/opencode.json"] = FileJson(KeyDoc(<<" ">>))
    /\ fw.files["global/opencode.jsonc"] = FileJsonc(KeyDoc(<<"g", "1">>))
    /\ fw.files["global/opencode.json"] = FileJson(KeyDoc(<<"g", "2">>))
    /\ fw.auth # JNull
    /\ GetProp(GetProp(fw.auth, "firmware"), "type") = Str("api")
    /\ fw.result = KeyResult(<<"g", "1">>, "opencode.jsonc")

(***************************************************************************)
(* config.ts: loadConfig                                                   *)
(***************************************************************************)
BooleanKeys ==
    {"enabled", "enableToast", "debug", "showOnIdle", "showOnQuestion", "showOnCompact",
     "showOnBothFail", "onlyCurrentModel", "showSessionTokens"}
PositiveKeys == {"minIntervalMs", "toastDurationMs"}
LayoutKeys   == {"maxWidth", "narrowAt", "tinyAt"}
ConfigKeys ==
    BooleanKeys \cup PositiveKeys
        \cup {"toastStyle", "enabledProviders", "googleModels", "pricingSource", "pricingUrl",
              "layout"}

\* DEFAULT_CONFIG is imported from types.js; its values are left opaque
DefaultOf(key) == [t |-> "default", key |-> key]
DEFAULT_CONFIG ==
    [key \in ConfigKeys |->
        IF key = "layout" THEN Obj([k \in LayoutKeys |-> DefaultOf(k)]) ELSE DefaultOf(key)]

isValidGoogleModelId(id) ==
    id.t = "str" /\ id.s \in {"G3PRO", "G3FLASH", "CLAUDE", "G3IMAGE"}

\* normalize of loadConfig
normalize(quotaToastConfig) ==
    IF ~Truthy(quotaToastConfig) THEN DEFAULT_CONFIG
    ELSE [key \in ConfigKeys |->
            LET v == GetProp(quotaToastConfig, key)
            IN  CASE key \in BooleanKeys -> IF v.t = "bool" THEN v ELSE DefaultOf(key)
                  [] key \in PositiveKeys ->
                        IF v.t = "num" /\ v.n > 0 THEN v ELSE DefaultOf(key)
                  [] key = "toastStyle" ->
                        IF v = Str("grouped") \/ v = Str("classic") THEN v ELSE DefaultOf(key)
                  [] key = "pricingSource" ->
                        IF v = Str("bundled") \/ v = Str("network") THEN v ELSE DefaultOf(key)
                  [] key = "pricingUrl" ->
                        IF v.t = "str" /\ trim(v.s) # "" THEN v ELSE DefaultOf(key)
                  [] key = "enabledProviders" ->
                        IF v.t = "arr" THEN Arr(SelectSeq(v.a, LAMBDA x : x.t = "str"))
                        ELSE DefaultOf(key)
                  [] key = "googleModels" ->
                        IF v.t = "arr" /\ SelectSeq(v.a, isValidGoogleModelId) # <<>>
                        THEN Arr(SelectSeq(v.a, isValidGoogleModelId))
                        ELSE DefaultOf(key)
                  [] key = "layout" ->
                        Obj([k \in LayoutKeys |->
                                LET w == IF v.t \in {"undef", "null"} THEN Undef
                                         ELSE GetProp(v, k)
                                IN  IF w.t = "num" /\ w.n > 0 THEN w ELSE DefaultOf(k)])]

\* path.endsWith(".jsonc")
endsWithJsonc(path) == path \in {"global/opencode.jsonc", "cwd/opencode.jsonc"}

\* readJson: the parsed content, null when anything throws
readJson(files, path) ==
    CASE files[path].st = "json"                         -> files[path].v
      [] files[path].st = "jsonc" /\ endsWithJsonc(path) -> files[path].v
      [] OTHER                                           -> JNull

\* candidates of loadFromFiles
candidates ==
    <<"global/opencode.jsonc", "global/opencode.json", "cwd/opencode.jsonc", "cwd/opencode.json">>

\* root?.experimental?.quotaToast
quotaToastOf(root) ==
    IF root.t \in {"undef", "null"} THEN Undef
    ELSE IF GetProp(root, "experimental").t \in {"undef", "null"} THEN Undef
    ELSE GetProp(GetProp(root, "experimental"), "quotaToast")

\* Object.assign(target, source) for objects
ObjectAssign(target, source) ==
    Obj([k \in DOMAIN target.f \cup DOMAIN source.f |->
            IF k \in DOMAIN source.f THEN source.f[k] ELSE target.f[k]])

\* an array seen as the object of its indices, as Object.assign reads it
ArrayAsObject(v) ==
    Obj([k \in {ToString(i - 1) : i \in DOMAIN v.a} |->
            v.a[CHOOSE i \in DOMAIN v.a : ToString(i - 1) = k]])

\* one round of the loop of loadFromFiles: what quota and usedPaths are
\* after candidate p
loadFromFile(files, p, quota, usedPaths) ==
    LET parsed == readJson(files, p)
        value  == quotaToastOf(parsed)
    IN  IF files[p].st = "absent" THEN [quota |-> quota, usedPaths |-> usedPaths]
        ELSE IF ~Truthy(parsed) \/ ~isObjectValue(parsed)
        THEN [quota |-> quota, usedPaths |-> usedPaths]
        ELSE IF ~Truthy(value) \/ ~isObjectValue(value)
        THEN [quota |-> quota, usedPaths |-> usedPaths]
        ELSE [quota |-> ObjectAssign(quota, IF value.t = "arr" THEN ArrayAsObject(value)
                                             ELSE value),
              usedPaths |-> Append(usedPaths, p)]

(***************************************************************************)
(* Inputs of loadConfig                                                    *)
(***************************************************************************)
\* { experimental: { quotaToast } }
QuotaDoc(quotaToast) == Obj("experimental" :> Obj("quotaToast" :> quotaToast))

\* the interval each file sets when it sets one
IntervalOf ==
    ("global/opencode.jsonc" :> 1000) @@ ("global/opencode.json" :> 2000)
        @@ ("cwd/opencode.jsonc" :> 3000) @@ ("cwd/opencode.json" :> 4000)

\* a file is absent, has no experimental section, sets minIntervalMs, sets
\* minIntervalMs and debug between comments, or sets debug and a layout
ConfFilesOf(path) ==
    {FileAbsent,
     FileJson(Obj(NoKeys)),
     FileJson(QuotaDoc(Obj("minIntervalMs" :> Num(IntervalOf[path])))),
     FileJsonc(QuotaDoc(Obj("minIntervalMs" :> Num(IntervalOf[path]) @@ "debug" :> Bool(TRUE)))),
     FileJson(QuotaDoc(Obj("debug" :> Bool(FALSE)
                           @@ "layout" :> Obj("maxWidth" :> Num(IntervalOf[path] \div 100)))))}

ConfFileSystems ==
    {f \in [DOMAIN IntervalOf -> UNION {ConfFilesOf(path) : path \in DOMAIN IntervalOf}] :
        \A path \in DOMAIN IntervalOf : f[path] \in ConfFilesOf(path)}

\* how client.config.get() settles: it rejects, or resolves to a response
\* whose data has no quotaToast, a quotaToast that is no object, or one
SdkReject == [ok |-> FALSE, data |-> Undef]
SdkResponse(data) == [ok |-> TRUE, data |-> data]
Sdks ==
    {SdkReject, SdkResponse(Undef), SdkResponse(QuotaDoc(Str("on"))),
     SdkResponse(QuotaDoc(Obj("minIntervalMs" :> Num(500))))}

(***************************************************************************)
(* SpecConf: one call of loadConfig(client, meta)                          *)
(***************************************************************************)
InitConf ==
    /\ SNAPSHOT = NoSnap
    /\ installed = FALSE
    /\ REFRESH_IN_FLIGHT = 0
    /\ tasks = <<>>
    /\ cacheFile = FileAbsent
    /\ bundledFile = FileAbsent
    /\ now = InitTick
    /\ last = LastBase("init")
    /\ fmt = FmtOff
    /\ fw = FwOff
    /\ \E sdk \in Sdks, files \in ConfFileSystems :
          conf = [pc |-> "call", sdk |-> sdk, files |-> files, i |-> 0, quota |-> Obj(NoKeys),
                  usedPaths |-> <<>>, source |-> "defaults", paths |-> <<>>,
                  result |-> DEFAULT_CONFIG]

ConfUnchanged ==
    UNCHANGED <<SNAPSHOT, installed, REFRESH_IN_FLIGHT, tasks, cacheFile, bundledFile, now, last, fmt, fw>>

\* await client.config.get() settles: the configuration of the SDK is
\* returned, or loadFromFiles starts
ConfigGet ==
    /\ conf.pc = "call"
    /\ \E q \in {IF conf.sdk.ok THEN quotaToastOf(conf.sdk.data) ELSE Undef} :
          conf' = IF conf.sdk.ok /\ Truthy(q) /\ isObjectValue(q)
                  THEN [conf EXCEPT !.pc = "done", !.source = "sdk",
                                    !.paths = <<"client.config.get">>, !.result = normalize(q)]
                  ELSE [conf EXCEPT !.pc = "files", !.i = 1]
    /\ ConfUnchanged

\* a round of the loop of loadFromFiles; after the last one the function
\* sets meta and returns
LoadFromFile ==
    /\ conf.pc = "files"
    /\ \E r \in {loadFromFile(conf.files, candidates[conf.i], conf.quota, conf.usedPaths)} :
          conf' = IF conf.i < Len(candidates)
                  THEN [conf EXCEPT !.i = conf.i + 1, !.quota = r.quota,
                                    !.usedPaths = r.usedPaths]
                  ELSE [conf EXCEPT !.pc = "done", !.quota = r.quota,
                                    !.usedPaths = r.usedPaths,
                                    !.source = IF Len(r.usedPaths) > 0 THEN "files"
                                               ELSE "defaults",
                                    !.paths = r.usedPaths,
                                    !.result = normalize(IF DOMAIN r.quota.f # {} THEN r.quota
                                                         ELSE JNull)]
    /\ ConfUnchanged

NextConf == ConfigGet \/ LoadFromFile

SpecConf == InitConf /\ [][NextConf]_vars

(***************************************************************************)
(* Properties of loadConfig                                                *)
(***************************************************************************)
\* the file at path exists, parses and sets key in experimental.quotaToast
SetsKey(path, key) ==
    /\ readJson(conf.files, path) # JNull
    /\ quotaToastOf(readJson(conf.files, path)).t = "obj"
    /\ key \in DOMAIN quotaToastOf(readJson(conf.files, path)).f

ValueIn(path, key) == quotaToastOf(readJson(conf.files, path)).f[key]

\* the files in the order of precedence the claim gives them
Precedence ==
    <<"cwd/opencode.jsonc", "cwd/opencode.json", "global/opencode.jsonc", "global/opencode.json">>

\* C15: when loadConfig has fallen back to the files, a key that several of
\* them set has the value of the first of cwd/opencode.jsonc,
\* cwd/opencode.json, global opencode.jsonc, global opencode.json that sets
\* it: within a location .jsonc takes precedence over .json, and the working
\* directory overrides the global directory.
C15_JsoncPrecedence ==
    (conf.pc = "done" /\ conf.source = "files") =>
        \A key \in {"minIntervalMs", "debug"} :
            \A i \in 1..Len(Precedence) :
                (SetsKey(Precedence[i], key)
                    /\ \A j \in 1..(i - 1) : ~SetsKey(Precedence[j], key))
                => conf.result[key] = ValueIn(Precedence[i], key)


====
